---- MODULE Spec2Model ----
(***************************************************************************)
(* Streaming tool-orchestration engine of the dehumidifier assistant.      *)
(*                                                                         *)
(* Three implementations of the same protocol live in the repository and   *)
(* are modelled side by side; the variable impl says which one a behaviour *)
(* runs:                                                                   *)
(*   "agent"    DehumidifierAgent of "ai_agent - Copy.py" (state machine)  *)
(*   "main"     the inlined service of main.py (chat_stream and helpers)   *)
(*   "executor" ToolExecutor.execute of tool_executor.py                   *)
(*                                                                         *)
(* Text is a sequence of tokens: "abc" + "de" becomes Seq \o Seq, so that  *)
(* concatenation order, JSON well-formedness and key construction are      *)
(* computed, not assumed.                                                  *)
(*                                                                         *)
(* A step of the model is the code between two suspension points (an       *)
(* awaited model call, a chunk of a stream, a yield of the tools phase).   *)
(* The agent's two `async with _session_lock` blocks contain no suspension *)
(* point, so within the streaming path the lock is free at every step.     *)
(*                                                                         *)
(* Left out: rate limiting, the websocket endpoint, the catalog step of    *)
(* the non-streaming process_chat, the get_product_catalog tool, and       *)
(* chunks that carry more than one tool-call delta.                        *)
(***************************************************************************)
EXTENDS Integers, Sequences, FiniteSets, TLC

VARIABLES
    impl,        \* which implementation this behaviour runs
    aLog,        \* delta assembly: the tool-call deltas delivered so far
    aDicts,      \* delta assembly: tool_call_dicts, in insertion order
    session,     \* session id -> the session object (history, cache, ...)
    lock,        \* holder of _session_lock (a turn), 0 when free
    turn,        \* turn -> the locals of its process_chat_streaming frame
    invoked,     \* session id -> log of calls of the underlying tool functions
    call,        \* one model call under retry: attempts, backoffs, outcome
    recovery,    \* session id -> is_streaming and the abort responses given
    store,       \* a session store: what it holds, its clock, the last answer
    calc,        \* a call of a sizing function: its arguments and its result
    products,    \* the product database the module loaded, shared by all
    ws           \* /ws: the connection counters and each connection's frame

avars == <<aLog, aDicts, call, recovery, store, calc, products, ws>>
tvars == <<session, lock, turn, invoked>>
vars == <<impl, avars, tvars>>

-----------------------------------------------------------------------------
(* Bounds of the model.                                                    *)

MaxDeltas == 3      \* tool-call deltas in one assembled stream
MaxIndex == 1       \* stream indices are 0..MaxIndex
MaxChunks == 2      \* chunks of one model stream of a turn
MaxPlanBatch == 2   \* tool calls in one batch planned after the first

SessionIds == {"s1", "s2"}
Turns == {1, 2}

\* User texts: only whether the text contains "recommend" matters here.
Texts == {"size", "recommend"}

-----------------------------------------------------------------------------
(* Text: function names and argument strings as token sequences.           *)

LoadName == <<"calculate_dehum", "_load">>
DocsName == <<"retrieve_relevant_docs">>

\* Name fragments a delta may carry; <<>> is None / "".
NameFrags == {<<>>, <<"calculate_dehum">>, <<"_load">>, LoadName, DocsName}

\* Argument fragments a delta may carry; <<>> is None / "".
ArgFrags == {<<>>, <<"{">>, <<"}">>, <<"{", "k", "}">>}

\* tc_delta of one streamed chunk: index, function.name, function.arguments.
\* The id of a call is sent with its first delta and is one-to-one with the
\* stream index, so the model uses the index as the id.
Deltas == [index : 0..MaxIndex, name : NameFrags, args : ArgFrags]

-----------------------------------------------------------------------------
(* Tool-call assembly from deltas.                                         *)

\* Position of stream index i in the insertion-ordered dict, 0 when absent.
DictPos(dicts, i) ==
    IF \E k \in 1..Len(dicts) : dicts[k].index = i
    THEN CHOOSE k \in 1..Len(dicts) : dicts[k].index = i
    ELSE 0

\* A faulty assembly: a later fragment replaces the arguments collected so
\* far instead of extending them.
AgentApplyDeltaOverwrite(dicts, d) ==
    LET k == DictPos(dicts, d.index) IN
    IF k = 0
    THEN Append(dicts, [index |-> d.index, id |-> d.index,
                        name |-> d.name, args |-> d.args])
    ELSE [dicts EXCEPT ![k] =
            [@ EXCEPT !.name = IF d.name # <<>> THEN @ \o d.name ELSE @,
                      !.args = IF d.args # <<>> THEN d.args ELSE @]]

\* _get_initial_completion: the first delta of an index creates the record
\* from its fragments, later deltas append non-empty fragments.
AgentApplyDelta(dicts, d) ==
    LET k == DictPos(dicts, d.index) IN
    IF k = 0
    THEN Append(dicts, [index |-> d.index, id |-> d.index,
                        name |-> d.name, args |-> d.args])
    ELSE [dicts EXCEPT ![k] =
            [@ EXCEPT !.name = IF d.name # <<>> THEN @ \o d.name ELSE @,
                      !.args = IF d.args # <<>> THEN @ \o d.args ELSE @]]

\* main.py process_chat_streaming: setdefault creates an empty record, a
\* non-empty name fragment REPLACES the name, argument fragments append.
MainApplyDelta(dicts, d) ==
    LET k == DictPos(dicts, d.index)
        base == IF k = 0
                THEN Append(dicts, [index |-> d.index, id |-> d.index,
                                    name |-> <<>>, args |-> <<>>])
                ELSE dicts
        j == IF k = 0 THEN Len(base) ELSE k
    IN [base EXCEPT ![j] =
            [@ EXCEPT !.name = IF d.name # <<>> THEN d.name ELSE @,
                      !.args = IF d.args # <<>> THEN @ \o d.args ELSE @]]

ApplyDelta(i, dicts, d) ==
    IF i = "agent" THEN AgentApplyDelta(dicts, d) ELSE MainApplyDelta(dicts, d)

-----------------------------------------------------------------------------
(* JSON arguments.  An argument string is a JSON object exactly when it is *)
(* "{" key* "}"; the token "k" stands for the complete, valid set of       *)
(* arguments of a tool, so "{k}" is a usable call and "{}" an empty map.   *)
(* "m" is a second complete set (another room), "b" a complete set with a  *)
(* target humidity not below the current one, and the two tokens of the    *)
(* load tool's name stand for an argument whose text holds that name.      *)

KeyOrder == <<"b", "calculate_dehum", "_load", "k", "m">>
Keys == {KeyOrder[i] : i \in DOMAIN KeyOrder}

\* The argument sets that give calculate_dehum_load all it requires.
LoadArgSets == {"k", "m", "b"}

\* json.loads succeeds (no JSONDecodeError).
IsJson(s) ==
    /\ Len(s) >= 2
    /\ s[1] = "{"
    /\ s[Len(s)] = "}"
    /\ \A i \in 2..(Len(s) - 1) : s[i] \in Keys \cup {" "}

\* json.loads: the parsed map, represented by its key set.
Loads(s) == {s[i] : i \in 2..(Len(s) - 1)} \cap Keys

\* json.dumps(args, sort_keys=True, separators=(",", ":")): compact form.
DumpsCompact(args) ==
    <<"{">> \o SelectSeq(KeyOrder, LAMBDA k : k \in args) \o <<"}">>

\* json.dumps(args, sort_keys=True): default separators ", " and ": " put a
\* space after the colon of every item.
DumpsDefault(args) ==
    LET items == SelectSeq(KeyOrder, LAMBDA k : k \in args)
    IN <<"{">> \o items \o (IF items = <<>> THEN <<>> ELSE <<" ">>)
              \o <<"}">>

\* _make_tool_key of tool_executor.py and of the agent.
MakeToolKey(name, args) == name \o <<"|">> \o DumpsCompact(args)

\* cache_key of main.py's invoke_tool.
MainToolKey(name, args) == name \o <<"|">> \o DumpsDefault(args)

-----------------------------------------------------------------------------
(* The session's insertion-ordered tool cache: a sequence of entries.      *)

InCache(cache, key) == \E i \in 1..Len(cache) : cache[i].key = key

CacheGet(cache, key) ==
    cache[CHOOSE i \in 1..Len(cache) : cache[i].key = key].result

\* dict[key] = result: a new key goes last, an existing key keeps its place.
CachePut(cache, key, result) ==
    IF InCache(cache, key)
    THEN [i \in 1..Len(cache) |->
            IF cache[i].key = key THEN [key |-> key, result |-> result]
            ELSE cache[i]]
    ELSE Append(cache, [key |-> key, result |-> result])

-----------------------------------------------------------------------------
(* Tool functions.  A result is a record; kind tells what the tool gave.   *)

Result(kind, name, args) == [kind |-> kind, name |-> name, args |-> args]

\* DehumidifierTools as called by the agent and by ToolExecutor._invoke:
\* calculate_dehum_load(**{}) lacks its required parameters (TypeError at
\* the call), retrieve_relevant_docs reads its arguments with .get.
AgentToolRaises(name, args) == name = LoadName /\ args \cap LoadArgSets = {}

\* calculate_dehum_load catches its own validation error (target humidity
\* not below the current one) and returns {"error": ...}; an unknown name
\* gives {"error": "Unknown tool"}.
AgentToolResult(name, args) ==
    IF name = LoadName
    THEN Result(IF "b" \in args THEN "error" ELSE "load", name, args)
    ELSE IF name = DocsName THEN Result("docs", name, args)
    ELSE Result("error", name, args)

\* tool_map of main.py's invoke_tool.
MainToolKnown(name) == name \in {LoadName, DocsName}

\* func(**func_args) inside invoke_tool's try: a missing required argument
\* is caught and becomes {"error": ...}.
MainToolResult(name, args) ==
    IF name = LoadName
    THEN Result(IF args \cap LoadArgSets = {} THEN "error" ELSE "load",
                name, args)
    ELSE Result(IF args = {} THEN "error" ELSE "docs", name, args)

-----------------------------------------------------------------------------
(* Events, messages, sessions and turn frames.                             *)

\* StreamingChatResponse / the event dicts of main.py.  is_final is FALSE
\* when the field is absent or defaulted; call is the tool call's id, -1
\* when the event is not about one call.
Ev(type, final, phase, status, id) ==
    [type |-> type, is_final |-> final, phase |-> phase,
     status |-> status, call |-> id, function_calls |-> <<>>,
     content |-> <<>>]

\* A content chunk sent to the client: an event that carries text.
ChunkEv(type, phase, status, text) ==
    [Ev(type, FALSE, phase, status, -1) EXCEPT !.content = text]

\* _create_error_response: is_final=True, metadata={"error": ...}.
ErrorResponse == Ev("error", TRUE, "none", "error", -1)

\* The keys an event carries.  The agent's events are StreamingChatResponse
\* objects (message, session_id, timestamp and is_final always present),
\* whose metadata has a phase except in the error and the recovery
\* response; main.py's events are the dicts of its yield statements.
EventFields(e) ==
    LET model == {"message", "session_id", "timestamp", "is_final"}
        sent == {"session_id", "timestamp", "metadata.phase"}
    IN CASE e.type \in {"chunk", "progress"} -> model \cup {"metadata.phase"}
         [] e.type = "final" /\ e.status = "final" ->
                model \cup {"metadata.phase"}
         [] e.type \in {"error", "recovery"} -> model
         [] e.type = "response" /\ e.phase = "initial_summary" ->
                {"metadata.phase"}
         [] e.type = "response" /\ e.phase # "initial_summary" -> sent
         [] e.type = "final" /\ e.status # "final" -> {"message", "is_final"}
         [] e.type = "tool_progress" -> sent \cup {"message"}
         [] OTHER -> sent

\* A message of the history or of the prompt.  load holds the load info of
\* a catalog-context message, result the tool result of a tool message.
Msg(role, t, content) ==
    [role |-> role, turn |-> t, content |-> content, tool_calls |-> <<>>,
     tool_call_id |-> -1, result |-> <<>>, load |-> <<>>]

SystemPrompt == Msg("system", 0, <<"prompt">>)

NewSession ==
    [history |-> <<>>,        \* conversation_history / session["history"]
     tool_cache |-> <<>>,     \* tool_cache / session["cache"]
     turn_calls |-> {},       \* session["_turn_calls"] (main.py)
     state |-> <<>>,          \* session["state"] (main.py)
     message_count |-> 0,     \* SessionInfo.message_count (agent)
     stored |-> <<>>,         \* the history the session store holds
     cleared |-> FALSE]       \* main.py: deleted from `sessions` while a
                              \* turn still held the object

\* Every lookup answers with the session of one fixed id.
SessionOfAny(ss, sid) == ss["s1"]

\* sessions[session_id], the object get_or_create_session returns: the
\* session a turn works on, and so the tool cache it reads.
SessionOf(ss, sid) == ss[sid]

IdleTurn ==
    [pc |-> "idle", sid |-> "s1", text |-> "size",
     current_phase |-> "none", messages |-> <<>>,
     accumulated_content |-> <<>>, tool_call_dicts |-> <<>>,
     tool_calls |-> <<>>, i |-> 0, total_calls |-> 0,
     tool_results |-> <<>>, function_calls |-> <<>>,
     events |-> <<>>, nchunks |-> 0, assistant_message |-> 0,
     escaped |-> FALSE,       \* an exception left the generator
     raised |-> "none",       \* the statement that raised, if one did
     stalled |-> FALSE,       \* a model stream of the turn went silent
     transport |-> "none"]    \* what generate_stream sent last

\* A chunk of a model stream: a content delta or one tool-call delta.
ContentChunk == [content |-> <<"c">>, tcs |-> <<>>]
EmptyChunk == [content |-> <<>>, tcs |-> <<>>]
ToolChunks(D) == {[content |-> <<>>, tcs |-> <<d>>] : d \in D}

\* Text of the messages produced when a phase catches an exception.
ErrText == <<"err">>

Range(f) == {f[x] : x \in DOMAIN f}

\* needle occurs in hay as a contiguous run of tokens (Python's `in`).
Contains(hay, needle) ==
    \E o \in 0..(Len(hay) - Len(needle)) :
        \A j \in 1..Len(needle) : hay[o + j] = needle[j]

\* key.split('|', 1)[1]
AfterBar(key) ==
    LET b == CHOOSE k \in 1..Len(key) :
                 key[k] = "|" /\ \A j \in 1..(k - 1) : key[j] # "|"
    IN SubSeq(key, b + 1, Len(key))

-----------------------------------------------------------------------------
(* The agent of "ai_agent - Copy.py".                                      *)

DEFAULT_CHUNK_SIZE == 150

\* _get_latest_load_info: the last cache entry whose key contains the text
\* calculate_dehum_load; <<>> is None.
AgentLatestLoadInfo(cache) ==
    LET hits == {k \in 1..Len(cache) :
                    /\ Contains(cache[k].key, LoadName)
                    /\ IsJson(AfterBar(cache[k].key))}
    IN IF hits = {} THEN <<>>
       ELSE LET k == CHOOSE x \in hits : \A y \in hits : y <= x
            IN <<[result |-> cache[k].result,
                  args |-> Loads(AfterBar(cache[k].key))]>>

\* _prepare_catalog_message: a system message built from the load info.
CatalogMessage(info) == [Msg("system", 0, <<"catalog">>) EXCEPT !.load = info]

\* _prepare_messages_streaming: system prompt, the whole history, and the
\* catalog context when the cache holds a load calculation.
AgentPrepareMessagesStreaming(s) ==
    LET info == AgentLatestLoadInfo(s.tool_cache)
        hist == [k \in 1..Len(s.history) |->
                    Msg(s.history[k].role, s.history[k].turn,
                        s.history[k].content)]
    IN <<SystemPrompt>> \o hist \o
       (IF info # <<>> THEN <<CatalogMessage(info)>> ELSE <<>>)

\* _stream_content_chunks: one chunk when the content fits chunk_size,
\* otherwise slices of chunk_size.
RECURSIVE StreamContentChunks(_)
StreamContentChunks(content) ==
    IF content = <<>> THEN <<>>
    ELSE IF Len(content) <= DEFAULT_CHUNK_SIZE THEN <<content>>
    ELSE <<SubSeq(content, 1, DEFAULT_CHUNK_SIZE)>> \o
         StreamContentChunks(SubSeq(content, DEFAULT_CHUNK_SIZE + 1,
                                    Len(content)))

Set(t, r) == turn' = [turn EXCEPT ![t] = r]

\* process_chat_streaming up to the phase loop: validation, then under
\* _session_lock the user message, the prompt and the empty assistant
\* message; the lock is released before the first model call.
AgentStart(t, Sids, Txts) ==
    /\ impl = "agent"
    /\ turn[t].pc = "idle"
    /\ lock = 0
    /\ \E valid \in BOOLEAN, s \in Sids, txt \in Txts :
        IF ~valid
        THEN /\ Set(t, [turn[t] EXCEPT !.pc = "done",
                            !.events = <<ErrorResponse>>])
             /\ UNCHANGED session
        ELSE LET h1 == Append(session[s].history, Msg("user", t, <<txt>>))
                 s1 == [session[s] EXCEPT !.history = h1]
                 h2 == Append(h1, Msg("assistant", t, <<>>))
             IN /\ session' = [session EXCEPT ![s].history = h2]
                /\ Set(t, [turn[t] EXCEPT
                        !.pc = "initial_call", !.sid = s, !.text = txt,
                        !.messages = AgentPrepareMessagesStreaming(s1),
                        !.assistant_message = Len(h2),
                        !.current_phase = "initial_summary"])
    /\ UNCHANGED <<impl, avars, lock, invoked>>

\* The assistant message of turn frame fr grows by text (the message object
\* appended to the history at the start of the turn is mutated in place).
GrowAssistant(fr, text) ==
    [session EXCEPT ![fr.sid].history[fr.assistant_message].content = @ \o text]

RECURSIVE Flatten(_)
Flatten(ss) == IF ss = <<>> THEN <<>> ELSE Head(ss) \o Flatten(Tail(ss))

\* INITIAL of process_chat_streaming once _get_initial_completion has
\* returned {content, tool_calls}: the content is streamed in chunks and
\* added to the assistant message, then the phase is chosen.
AgentAfterInitial(t, content, tool_calls) ==
    LET chunks == StreamContentChunks(content)
        evs == [k \in 1..Len(chunks) |->
                   ChunkEv("chunk", "initial_summary", "content", chunks[k])]
        next == IF tool_calls # <<>> THEN "tools" ELSE "final"
    IN /\ Set(t, [turn[t] EXCEPT
                !.accumulated_content = content,
                !.tool_calls = tool_calls,
                !.raised = IF content = ErrText THEN "model" ELSE @,
                !.events = @ \o evs,
                !.current_phase = next,
                !.pc = next])
       /\ session' = GrowAssistant(turn[t], Flatten(chunks))

\* _get_initial_completion: the awaited model call returns a stream.
AgentInitialCall(t) ==
    /\ impl = "agent"
    /\ turn[t].pc = "initial_call"
    /\ Set(t, [turn[t] EXCEPT !.pc = "initial_stream", !.nchunks = 0])
    /\ UNCHANGED <<impl, avars, session, lock, invoked>>

\* _get_initial_completion: one chunk of the stream.
AgentInitialChunk(t, Chunks) ==
    /\ impl = "agent"
    /\ turn[t].pc = "initial_stream"
    /\ turn[t].nchunks < MaxChunks
    /\ \E ch \in Chunks :
        Set(t, [turn[t] EXCEPT
            !.nchunks = @ + 1,
            !.accumulated_content = @ \o ch.content,
            !.tool_call_dicts =
                IF ch.tcs = <<>> THEN @ ELSE AgentApplyDelta(@, ch.tcs[1])])
    /\ UNCHANGED <<impl, avars, session, lock, invoked>>

\* _get_initial_completion: the stream ends; tool_calls is the list of the
\* assembled records.
AgentInitialEnd(t) ==
    /\ impl = "agent"
    /\ turn[t].pc = "initial_stream"
    /\ AgentAfterInitial(t, turn[t].accumulated_content,
                         turn[t].tool_call_dicts)
    /\ UNCHANGED <<impl, avars, lock, invoked>>

\* _get_initial_completion: the model call or the stream raises (retries
\* exhausted, a non-transient error) or its own timeout fires; the except
\* clauses return a warning text and no tool calls.
AgentInitialFail(t) ==
    /\ impl = "agent"
    /\ turn[t].pc \in {"initial_call", "initial_stream"}
    /\ AgentAfterInitial(t, ErrText, <<>>)
    /\ UNCHANGED <<impl, avars, lock, invoked>>

\* _stream_tools_phase before the loop: the assistant message carrying the
\* tool calls joins the prompt, a starting_tools progress event is sent.
AgentToolsBegin(t) ==
    /\ impl = "agent"
    /\ turn[t].pc = "tools"
    /\ Set(t, [turn[t] EXCEPT
            !.pc = "tool_loop", !.i = 1,
            !.messages = Append(@,
                [Msg("assistant", t, turn[t].accumulated_content)
                    EXCEPT !.tool_calls = turn[t].tool_calls]),
            !.events = Append(@,
                Ev("progress", FALSE, "tools", "starting_tools", -1))])
    /\ UNCHANGED <<impl, avars, session, lock, invoked>>

ToolMsg(t, tc, result) ==
    [Msg("tool", t, <<>>) EXCEPT !.tool_call_id = tc.id, !.result = <<result>>]

\* _execute_tool_function: <<result, cache', invoked'>> for a call whose
\* tool does not raise.
AgentExecuteToolFunction(name, args, cache, log) ==
    LET key == MakeToolKey(name, args) IN
    IF InCache(cache, key)
    THEN <<CacheGet(cache, key), cache, log>>
    ELSE LET result == AgentToolResult(name, args)
             log2 == IF name \in {LoadName, DocsName}
                     THEN Append(log, [name |-> name, args |-> args])
                     ELSE log
         IN <<result,
              IF name # DocsName THEN CachePut(cache, key, result) ELSE cache,
              log2>>

\* _stream_tools_phase, one iteration of the loop over tool_calls.
AgentToolStep(t) ==
    /\ impl = "agent"
    /\ turn[t].pc = "tool_loop"
    /\ turn[t].i <= Len(turn[t].tool_calls)
    /\ LET fr == turn[t]
           tc == fr.tool_calls[fr.i]
           start == Ev("progress", FALSE, "tools", "executing_tool", tc.id)
           error == Ev("progress", FALSE, "tools", "tool_error", tc.id)
           done == Ev("progress", FALSE, "tools", "tool_completed", tc.id)
           args == Loads(tc.args)
           key == MakeToolKey(tc.name, args)
           cache == SessionOf(session, fr.sid).tool_cache
           skip == \/ ~IsJson(tc.args)
                   \/ (~InCache(cache, key) /\ AgentToolRaises(tc.name, args))
           out == AgentExecuteToolFunction(tc.name, args, cache,
                                           invoked[fr.sid])
       IN IF skip
          THEN /\ Set(t, [fr EXCEPT !.i = @ + 1,
                              !.events = @ \o <<start, error>>])
               /\ UNCHANGED <<session, invoked>>
          ELSE /\ Set(t, [fr EXCEPT !.i = @ + 1,
                              !.events = @ \o <<start, done>>,
                              !.tool_results = Append(@,
                                  [name |-> tc.name, arguments |-> args,
                                   result |-> out[1]]),
                              !.messages = Append(@, ToolMsg(t, tc, out[1]))])
               /\ session' = [session EXCEPT ![fr.sid].tool_cache = out[2]]
               /\ invoked' = [invoked EXCEPT ![fr.sid] = out[3]]
    /\ UNCHANGED <<impl, avars, lock>>

\* _stream_tools_phase after the loop: the catalog context of the latest
\* cached load calculation, then ToolResults.  When building the context
\* raises, the except clause of the phase sends a phase_error event and no
\* ToolResults is delivered.
AgentToolsEnd(t) ==
    /\ impl = "agent"
    /\ turn[t].pc = "tool_loop"
    /\ turn[t].i > Len(turn[t].tool_calls)
    /\ LET fr == turn[t]
           info == AgentLatestLoadInfo(session[fr.sid].tool_cache)
       IN \E raises \in BOOLEAN :
            /\ raises => info # <<>>
            /\ IF raises
               THEN Set(t, [fr EXCEPT
                        !.pc = "synth_call",
                        !.raised = "catalog",
                        !.current_phase = "recommendations",
                        !.events = Append(@,
                            Ev("progress", FALSE, "tools", "phase_error", -1))])
               ELSE Set(t, [fr EXCEPT
                        !.pc = "synth_call",
                        !.current_phase = "recommendations",
                        !.function_calls = fr.tool_results,
                        !.messages = IF info # <<>>
                                     THEN Append(@, CatalogMessage(info))
                                     ELSE @,
                        !.events = IF info # <<>>
                                   THEN Append(@, Ev("progress", FALSE, "tools",
                                                     "catalog_prepared", -1))
                                   ELSE @])
    /\ UNCHANGED <<impl, avars, session, lock, invoked>>

\* _stream_follow_up_synthesis: the awaited model call returns a stream.
AgentSynthCall(t) ==
    /\ impl = "agent"
    /\ turn[t].pc = "synth_call"
    /\ Set(t, [turn[t] EXCEPT !.pc = "synth_stream", !.nchunks = 0])
    /\ UNCHANGED <<impl, avars, session, lock, invoked>>

\* SYNTHESIS: a chunk yielded by _stream_follow_up_synthesis is added to
\* the assistant message and forwarded.
AgentForward(t, text, status, pc) ==
    /\ Set(t, [turn[t] EXCEPT
            !.pc = pc,
            !.nchunks = @ + 1,
            !.current_phase = IF pc = "final" THEN "final" ELSE @,
            !.raised = IF status = "error" THEN "model" ELSE @,
            !.events = Append(@,
                ChunkEv("chunk", "recommendations", status, text))])
    /\ session' = GrowAssistant(turn[t], text)

\* _stream_follow_up_synthesis: one chunk of the stream; only chunks with
\* content are forwarded (tool_choice is "none": the chunks carry no
\* tool-call delta).
AgentSynthChunk(t, Chunks) ==
    /\ impl = "agent"
    /\ turn[t].pc = "synth_stream"
    /\ turn[t].nchunks < MaxChunks
    /\ \E ch \in {c \in Chunks : c.tcs = <<>>} :
        IF ch.content # <<>>
        THEN AgentForward(t, ch.content, "content", "synth_stream")
        ELSE /\ Set(t, [turn[t] EXCEPT !.nchunks = @ + 1])
             /\ UNCHANGED session
    /\ UNCHANGED <<impl, avars, lock, invoked>>

\* _stream_follow_up_synthesis: the stream ends, the phase loop sets FINAL.
AgentSynthEnd(t) ==
    /\ impl = "agent"
    /\ turn[t].pc = "synth_stream"
    /\ Set(t, [turn[t] EXCEPT !.pc = "final", !.current_phase = "final"])
    /\ UNCHANGED <<impl, avars, session, lock, invoked>>

\* _stream_follow_up_synthesis: the model call or the stream raises or its
\* own timeout fires; the except clauses yield one warning chunk.
AgentSynthFail(t) ==
    /\ impl = "agent"
    /\ turn[t].pc \in {"synth_call", "synth_stream"}
    /\ AgentForward(t, ErrText, "error", "final")
    /\ UNCHANGED <<impl, avars, lock, invoked>>

\* _update_session: message_count grows by two, then the store saves.
UpdateSession(s, saved) ==
    [s EXCEPT !.message_count = @ + 2,
              !.stored = IF saved THEN s.history ELSE @]

\* FINAL: _update_session under the lock, then the final event.  A save
\* that raises is caught by the except clause of process_chat_streaming.
AgentFinal(t) ==
    /\ impl = "agent"
    /\ turn[t].pc = "final"
    /\ lock = 0
    /\ \E saved \in BOOLEAN :
        /\ Set(t, [turn[t] EXCEPT
                !.pc = "done",
                !.raised = IF saved THEN @ ELSE "save",
                !.events = Append(@,
                    IF saved
                    THEN [Ev("final", TRUE, "final", "final", -1)
                            EXCEPT !.function_calls = turn[t].function_calls]
                    ELSE ErrorResponse)])
        /\ session' = [session EXCEPT ![turn[t].sid] =
                           UpdateSession(@, saved)]
    /\ UNCHANGED <<impl, avars, lock, invoked>>

\* asyncio.timeout(STREAMING_TIMEOUT_SECONDS) around the phase loop fires
\* at one of its suspension points; except asyncio.TimeoutError yields the
\* error response.
AgentTimeout(t) ==
    /\ impl = "agent"
    /\ turn[t].pc \in {"initial_call", "initial_stream", "tools", "tool_loop",
                       "synth_call", "synth_stream",
                       "initial_stalled", "synth_stalled"}
    /\ Set(t, [turn[t] EXCEPT !.pc = "done", !.raised = "timeout",
                              !.events = Append(@, ErrorResponse)])
    /\ UNCHANGED <<impl, avars, session, lock, invoked>>

AgentNext(t, Sids, Txts, Chunks) ==
    \/ AgentStart(t, Sids, Txts)
    \/ AgentInitialCall(t)
    \/ AgentInitialChunk(t, Chunks)
    \/ AgentInitialEnd(t)
    \/ AgentInitialFail(t)
    \/ AgentToolsBegin(t)
    \/ AgentToolStep(t)
    \/ AgentToolsEnd(t)
    \/ AgentSynthCall(t)
    \/ AgentSynthChunk(t, Chunks)
    \/ AgentSynthEnd(t)
    \/ AgentSynthFail(t)
    \/ AgentFinal(t)
    \/ AgentTimeout(t)

-----------------------------------------------------------------------------
(* The service of main.py: chat_stream.generate_stream around              *)
(* process_chat_streaming and stream_tools_phase.                          *)

MAX_TOOL_CALLS_PER_TURN == 4

\* One call more than the cap is let through.
UnderCapLoose(n) == n <= MAX_TOOL_CALLS_PER_TURN

\* `if total_calls >= MAX_TOOL_CALLS_PER_TURN: break`, the test made before
\* every call in the loops of stream_tools_phase and of process_tool_calls'
\* run_batch: n calls so far leave room for another.
UnderCap(n) == n < MAX_TOOL_CALLS_PER_TURN

\* prepare_messages: system prompt, the compact state line when the session
\* has state, and the last six messages of the history.
MainPrepareMessages(s) ==
    LET n == Len(s.history)
        from == IF n > 6 THEN n - 5 ELSE 1
        hist == [k \in 1..(n - from + 1) |->
                    Msg(s.history[from + k - 1].role,
                        s.history[from + k - 1].turn,
                        s.history[from + k - 1].content)]
    IN <<SystemPrompt>> \o
       (IF s.state # <<>> THEN <<Msg("system", 0, <<"state">>)>> ELSE <<>>) \o
       hist

\* finalize_tool_calls: records whose arguments (or "{}" when empty) do not
\* parse are dropped.
FinalizeToolCalls(dicts) ==
    SelectSeq(dicts, LAMBDA rec : rec.args = <<>> \/ IsJson(rec.args))

\* get_latest_load_info of main.py.
MainLatestLoadInfo(cache) ==
    LET hits == {k \in 1..Len(cache) : Contains(cache[k].key, LoadName)}
    IN IF hits = {} THEN <<>>
       ELSE LET k == CHOOSE x \in hits : \A y \in hits : y <= x
            IN <<[result |-> cache[k].result,
                  args |-> Loads(AfterBar(cache[k].key))]>>

\* generate_stream after an exception left process_chat_streaming: the
\* except clause sends the transport's streaming_error frame, the finally
\* clause saves the session and drops _turn_calls.
MainEscape(t, fr, cause) ==
    /\ Set(t, [fr EXCEPT !.pc = "done", !.escaped = TRUE, !.raised = cause,
                         !.transport = "streaming_error"])

\* wp_save_session: the history is posted to the store; a failure of the
\* request is logged and swallowed.
WpSave(s, ok) == IF ok THEN [s EXCEPT !.stored = s.history] ELSE s

\* The finally clause of generate_stream: update_session, then _turn_calls
\* is deleted.
MainFinally(ss, sid, ok) ==
    [ss EXCEPT ![sid] = [WpSave(@, ok) EXCEPT !.turn_calls = {}]]

\* wp_load_session: the history is rebuilt from the stored rows; a row
\* with neither message nor response text gives no message.
WpLoadHistory(stored) == SelectSeq(stored, LAMBDA m : m.content # <<>>)

\* get_or_create_session: the object in `sessions`, or, when the id is not
\* there, a session with the history wp_load_session builds from the rows
\* of the store (a new one when the store has none).
GetOrCreateSession(s) ==
    IF s.cleared
    THEN [NewSession EXCEPT !.history = WpLoadHistory(s.stored),
                            !.stored = s.stored]
    ELSE s

\* generate_stream up to the first model call: the session is fetched
\* under _session_lock, the user message appended, the prompt prepared.
MainStart(t, Sids, Txts) ==
    /\ impl = "main"
    /\ turn[t].pc = "idle"
    /\ lock = 0
    /\ \E s \in Sids, txt \in Txts :
        LET s0 == GetOrCreateSession(session[s])
            h1 == Append(s0.history, Msg("user", t, <<txt>>))
            s1 == [s0 EXCEPT !.history = h1]
        IN /\ session' = [session EXCEPT ![s] = s1]
           /\ Set(t, [turn[t] EXCEPT
                   !.pc = "initial_call", !.sid = s, !.text = txt,
                   !.messages = MainPrepareMessages(s1),
                   !.current_phase = "initial_summary"])
    /\ UNCHANGED <<impl, avars, lock, invoked>>

\* completion(..., tool_choice="auto", stream=True) returns a stream.
MainInitialCall(t) ==
    /\ impl = "main"
    /\ turn[t].pc = "initial_call"
    /\ Set(t, [turn[t] EXCEPT !.pc = "initial_stream", !.nchunks = 0])
    /\ UNCHANGED <<impl, avars, session, lock, invoked>>

\* INITIAL, one chunk: content is forwarded at once, a tool-call delta is
\* merged into tool_call_dicts.
MainInitialChunk(t, Chunks) ==
    /\ impl = "main"
    /\ turn[t].pc = "initial_stream"
    /\ turn[t].nchunks < MaxChunks
    /\ \E ch \in Chunks :
        Set(t, [turn[t] EXCEPT
            !.nchunks = @ + 1,
            !.accumulated_content = @ \o ch.content,
            !.events = IF ch.content # <<>>
                       THEN Append(@, ChunkEv("response", "initial_summary",
                                              "content", ch.content))
                       ELSE @,
            !.tool_call_dicts =
                IF ch.tcs = <<>> THEN @ ELSE MainApplyDelta(@, ch.tcs[1])])
    /\ UNCHANGED <<impl, avars, session, lock, invoked>>

\* The phase chosen at the end of INITIAL.
MainPhaseAfterInitial(tool_calls, text) ==
    IF tool_calls # <<>> THEN "tools"
    ELSE IF text = "recommend" THEN "recommendations"
    ELSE "final"

PcOfPhase(phase) ==
    IF phase = "recommendations" THEN "synth_call" ELSE phase

\* INITIAL, end of the stream: the tool calls are finalized, the assistant
\* message joins the prompt, the next phase is chosen.
MainInitialEnd(t) ==
    /\ impl = "main"
    /\ turn[t].pc = "initial_stream"
    /\ LET fr == turn[t]
           tool_calls == FinalizeToolCalls(fr.tool_call_dicts)
           next == MainPhaseAfterInitial(tool_calls, fr.text)
       IN Set(t, [fr EXCEPT
               !.tool_calls = tool_calls,
               !.messages = Append(@,
                   [Msg("assistant", t, fr.accumulated_content)
                       EXCEPT !.tool_calls = tool_calls]),
               !.current_phase = next,
               !.pc = PcOfPhase(next)])
    /\ UNCHANGED <<impl, avars, session, lock, invoked>>

\* A model call or a model stream raises (retries exhausted, a
\* non-transient error, the client's timeout): nothing in
\* process_chat_streaming or stream_tools_phase catches it.
MainModelRaises(t) ==
    /\ impl = "main"
    /\ turn[t].pc \in {"initial_call", "initial_stream", "plan",
                       "synth_call", "synth_stream",
                       "initial_stalled", "synth_stalled"}
    /\ MainEscape(t, turn[t], "model")
    /\ \E ok \in BOOLEAN : session' = MainFinally(session, turn[t].sid, ok)
    /\ UNCHANGED <<impl, avars, lock, invoked>>

\* stream_tools_phase: the while loop is entered with a batch, tool_start
\* is sent.
MainBatchStart(fr, batch) ==
    [fr EXCEPT !.pc = "tool_loop", !.tool_calls = batch, !.i = 1,
               !.events = Append(@,
                   Ev("tool_start", FALSE, "tools", "starting_tools", -1))]

MainToolsBegin(t) ==
    /\ impl = "main"
    /\ turn[t].pc = "tools"
    /\ Set(t, MainBatchStart(turn[t], turn[t].tool_calls))
    /\ UNCHANGED <<impl, avars, session, lock, invoked>>

\* invoke_tool: <<raised, result, session', invoked'>>.  A key already in
\* _turn_calls answers with the skipped_duplicate note, an unknown name
\* raises ValueError after its key was recorded, a cached key answers from
\* the cache, and anything else calls the tool and caches what it gave,
\* an {"error": ...} included (a call that lacks a required argument fails
\* at the call and never enters the tool).
MainInvokeTool(name, args, s, log) ==
    LET key == MainToolKey(name, args)
        s1 == [s EXCEPT !.turn_calls = @ \cup {key}]
    IN IF key \in s.turn_calls
       THEN <<FALSE, Result("note", name, args), s, log>>
       ELSE IF ~MainToolKnown(name)
       THEN <<TRUE, Result("error", name, args), s1, log>>
       ELSE IF InCache(s.tool_cache, key)
       THEN <<FALSE, CacheGet(s.tool_cache, key), s1, log>>
       ELSE LET result == MainToolResult(name, args)
            IN <<FALSE, result,
                 [s1 EXCEPT !.tool_cache = CachePut(@, key, result)],
                 IF result.kind # "error"
                 THEN Append(log, [name |-> name, args |-> args])
                 ELSE log>>

\* One pass of the for loop of stream_tools_phase.  json.loads of the
\* arguments, the unknown tool and the state update after a load call
\* (result['derived'] of a result that has none) raise out of the turn.
MainToolStep(t) ==
    /\ impl = "main"
    /\ turn[t].pc = "tool_loop"
    /\ turn[t].i <= Len(turn[t].tool_calls)
    /\ UnderCap(turn[t].total_calls)
    /\ \E ok \in BOOLEAN :
       LET fr == turn[t]
           tc == fr.tool_calls[fr.i]
           s == SessionOf(session, fr.sid)
       IN IF ~IsJson(tc.args)
          THEN /\ MainEscape(t, fr, "json")
               /\ session' = MainFinally(session, fr.sid, ok)
               /\ UNCHANGED invoked
          ELSE LET args == Loads(tc.args)
                   r == MainInvokeTool(tc.name, args, s, invoked[fr.sid])
                   result == r[2]
                   ev1 == Ev("tool_progress", FALSE, "tools",
                             "executing_tool", tc.id)
                   ev2 == Ev("tool_result", FALSE, "tools",
                             "tool_completed", tc.id)
                   keyError == tc.name = LoadName /\ result.kind # "load"
                   fr1 == [fr EXCEPT !.events = Append(@, ev1)]
                   fr2 == [fr EXCEPT
                       !.events = @ \o <<ev1, ev2>>,
                       !.total_calls = @ + 1,
                       !.tool_results = Append(@,
                           [name |-> tc.name, arguments |-> args,
                            result |-> result]),
                       !.messages = Append(@, ToolMsg(t, tc, result))]
                   s2 == IF tc.name = LoadName /\ ~keyError
                         THEN WpSave([r[3] EXCEPT !.state = <<"load">>], ok)
                         ELSE r[3]
                   ss == [session EXCEPT ![fr.sid] = s2]
               IN /\ invoked' = [invoked EXCEPT ![fr.sid] = r[4]]
                  /\ IF r[1] THEN /\ MainEscape(t, fr1, "unknown_tool")
                                  /\ session' = MainFinally(ss, fr.sid, ok)
                     ELSE IF keyError
                     THEN /\ MainEscape(t, fr2, "state_update")
                          /\ session' = MainFinally(ss, fr.sid, ok)
                     ELSE /\ Set(t, [fr2 EXCEPT !.i = @ + 1])
                          /\ session' = ss
    /\ UNCHANGED <<impl, avars, lock>>

\* The for loop is left: at the cap the while loop breaks, under it the
\* model is asked to plan the next batch.
MainBatchEnd(t) ==
    /\ impl = "main"
    /\ turn[t].pc = "tool_loop"
    /\ \/ turn[t].i > Len(turn[t].tool_calls)
       \/ ~UnderCap(turn[t].total_calls)
    /\ Set(t, [turn[t] EXCEPT !.pc =
            IF ~UnderCap(turn[t].total_calls)
            THEN "tools_end" ELSE "plan"])
    /\ UNCHANGED <<impl, avars, session, lock, invoked>>

\* normalize_tool_calls: the planned calls as records, ids fresh.
NormalizeToolCalls(calls, base) ==
    [k \in 1..Len(calls) |->
        [index |-> k - 1, id |-> base + k,
         name |-> calls[k].name, args |-> calls[k].args]]

\* The planning completion answered: no calls end the loop, calls become
\* the next batch.
MainPlan(t, Plans) ==
    /\ impl = "main"
    /\ turn[t].pc = "plan"
    /\ \E calls \in Plans :
        LET fr == turn[t]
            next_calls == NormalizeToolCalls(calls,
                              MaxIndex + 1 + fr.total_calls)
        IN IF next_calls = <<>>
           THEN Set(t, [fr EXCEPT !.pc = "tools_end"])
           ELSE Set(t, MainBatchStart(
                    [fr EXCEPT !.messages = Append(@,
                        [Msg("assistant", t, <<>>)
                            EXCEPT !.tool_calls = next_calls])],
                    next_calls))
    /\ UNCHANGED <<impl, avars, session, lock, invoked>>

\* After the loop: tool_end, the catalog step when a load is cached, and
\* the results handed to process_chat_streaming, which moves on to
\* recommendations.  prepare_catalog_message is outside any try.
MainToolsEnd(t) ==
    /\ impl = "main"
    /\ turn[t].pc = "tools_end"
    /\ LET fr == turn[t]
           info == MainLatestLoadInfo(session[fr.sid].tool_cache)
           ev == Ev("tool_end", FALSE, "tools", "tools_completed", -1)
           fr1 == [fr EXCEPT !.events = Append(@, ev)]
       IN \/ /\ info # <<>>
             /\ MainEscape(t, fr1, "catalog")
             /\ \E ok \in BOOLEAN :
                    session' = MainFinally(session, fr.sid, ok)
          \/ /\ Set(t, [fr1 EXCEPT
                   !.messages = IF info # <<>>
                                THEN Append(@, CatalogMessage(info))
                                ELSE @,
                   !.events = IF info # <<>>
                              THEN Append(@, Ev("tool_progress", FALSE,
                                      "tools", "catalog_prepared", -1))
                              ELSE @,
                   !.function_calls = fr.tool_results,
                   !.current_phase = "recommendations",
                   !.pc = "synth_call"])
             /\ UNCHANGED session
    /\ UNCHANGED <<impl, avars, lock, invoked>>

\* completion(..., tool_choice="none", stream=True) returns a stream.
MainSynthCall(t) ==
    /\ impl = "main"
    /\ turn[t].pc = "synth_call"
    /\ Set(t, [turn[t] EXCEPT !.pc = "synth_stream", !.nchunks = 0])
    /\ UNCHANGED <<impl, avars, session, lock, invoked>>

\* RECOMMENDATIONS, one chunk: content is forwarded, anything else ignored.
MainSynthChunk(t, Chunks) ==
    /\ impl = "main"
    /\ turn[t].pc = "synth_stream"
    /\ turn[t].nchunks < MaxChunks
    /\ \E ch \in {c \in Chunks : c.tcs = <<>>} :
        Set(t, [turn[t] EXCEPT
            !.nchunks = @ + 1,
            !.events = IF ch.content # <<>>
                       THEN Append(@, ChunkEv("response", "recommendations",
                                              "content", ch.content))
                       ELSE @])
    /\ UNCHANGED <<impl, avars, session, lock, invoked>>

MainSynthEnd(t) ==
    /\ impl = "main"
    /\ turn[t].pc = "synth_stream"
    /\ Set(t, [turn[t] EXCEPT !.current_phase = "final", !.pc = "final"])
    /\ UNCHANGED <<impl, avars, session, lock, invoked>>

\* The final event of process_chat_streaming is yielded to the client.
MainFinal(t) ==
    /\ impl = "main"
    /\ turn[t].pc = "final"
    /\ LET fr == turn[t]
           ev == [Ev("final", TRUE, "final", "complete", -1)
                     EXCEPT !.function_calls = fr.function_calls]
       IN Set(t, [fr EXCEPT !.events = Append(@, ev), !.pc = "final_sent"])
    /\ UNCHANGED <<impl, avars, session, lock, invoked>>

\* generate_stream after the final event went out: the [DONE] frame, then
\* the finally clause saves the session.
MainFinish(t) ==
    /\ impl = "main"
    /\ turn[t].pc = "final_sent"
    /\ Set(t, [turn[t] EXCEPT !.pc = "done", !.transport = "done"])
    /\ \E ok \in BOOLEAN : session' = MainFinally(session, turn[t].sid, ok)
    /\ UNCHANGED <<impl, avars, lock, invoked>>

MainNext(t, Sids, Txts, Chunks, Plans) ==
    \/ MainStart(t, Sids, Txts)
    \/ MainInitialCall(t)
    \/ MainInitialChunk(t, Chunks)
    \/ MainInitialEnd(t)
    \/ MainModelRaises(t)
    \/ MainToolsBegin(t)
    \/ MainToolStep(t)
    \/ MainBatchEnd(t)
    \/ MainPlan(t, Plans)
    \/ MainToolsEnd(t)
    \/ MainSynthCall(t)
    \/ MainSynthChunk(t, Chunks)
    \/ MainSynthEnd(t)
    \/ MainFinal(t)
    \/ MainFinish(t)

-----------------------------------------------------------------------------
(* ToolExecutor of tool_executor.py: execute runs a list of tool calls     *)
(* against a session; an exception of _invoke leaves execute.              *)

\* execute is entered with a list of tool calls.
ExecStart(t, Sids, Batches) ==
    /\ impl = "executor"
    /\ turn[t].pc = "idle"
    /\ \E s \in Sids, calls \in Batches :
        /\ calls # <<>>
        /\ Set(t, [turn[t] EXCEPT !.pc = "exec_loop", !.sid = s, !.i = 1,
                       !.tool_calls = NormalizeToolCalls(calls, 0)])
    /\ UNCHANGED <<impl, avars, session, lock, invoked>>

\* _invoke: <<raised, result>>.  An unknown name raises ValueError, a load
\* call without its required arguments raises TypeError.
ExecInvoke(name, args) ==
    IF name \notin {LoadName, DocsName} \/ AgentToolRaises(name, args)
    THEN <<TRUE, Result("error", name, args)>>
    ELSE <<FALSE, AgentToolResult(name, args)>>

\* One pass of the for loop of execute: malformed JSON falls back to {},
\* every tool but retrieve_relevant_docs is answered from and stored in
\* session.tool_cache.
ExecStep(t) ==
    /\ impl = "executor"
    /\ turn[t].pc = "exec_loop"
    /\ turn[t].i <= Len(turn[t].tool_calls)
    /\ LET fr == turn[t]
           tc == fr.tool_calls[fr.i]
           func_args == IF IsJson(tc.args) THEN Loads(tc.args) ELSE {}
           cache_key == MakeToolKey(tc.name, func_args)
           use_cache == tc.name # DocsName
           cache == SessionOf(session, fr.sid).tool_cache
           hit == use_cache /\ InCache(cache, cache_key)
           r == ExecInvoke(tc.name, func_args)
           result == IF hit THEN CacheGet(cache, cache_key) ELSE r[2]
       IN IF ~hit /\ r[1]
          THEN /\ Set(t, [fr EXCEPT !.pc = "done", !.escaped = TRUE,
                       !.raised = IF tc.name \in {LoadName, DocsName}
                                  THEN "tool" ELSE "unknown_tool"])
               /\ UNCHANGED <<session, invoked>>
          ELSE /\ Set(t, [fr EXCEPT !.i = @ + 1,
                       !.tool_results = Append(@,
                           [name |-> tc.name, arguments |-> func_args,
                            result |-> result])])
               /\ session' = IF ~hit /\ use_cache
                             THEN [session EXCEPT ![fr.sid].tool_cache =
                                      CachePut(@, cache_key, result)]
                             ELSE session
               /\ invoked' = IF hit THEN invoked
                             ELSE [invoked EXCEPT ![fr.sid] = Append(@,
                                      [name |-> tc.name, args |-> func_args])]
    /\ UNCHANGED <<impl, avars, lock>>

\* execute returns its results.
ExecEnd(t) ==
    /\ impl = "executor"
    /\ turn[t].pc = "exec_loop"
    /\ turn[t].i > Len(turn[t].tool_calls)
    /\ Set(t, [turn[t] EXCEPT !.pc = "done",
                   !.function_calls = turn[t].tool_results])
    /\ UNCHANGED <<impl, avars, session, lock, invoked>>

ExecNext(t, Sids, Batches) ==
    \/ ExecStart(t, Sids, Batches)
    \/ ExecStep(t)
    \/ ExecEnd(t)

-----------------------------------------------------------------------------
(* The agent's non-streaming process_chat: the whole turn runs inside      *)
(* `async with self._session_lock`, across its awaited model calls.        *)

\* A lock that leaks: leaving the block keeps the holder.
ReleaseLockLeak(l, t) == l

\* __aexit__ of `async with self._session_lock`: the holder frees the lock,
\* however the block is left.
ReleaseLock(l, t) == IF l = t THEN 0 ELSE l

\* _prepare_messages: system prompt, the cache summary when the cache holds
\* a load calculation, and the whole history.
AgentPrepareMessages(s) ==
    LET hist == [k \in 1..Len(s.history) |->
                    Msg(s.history[k].role, s.history[k].turn,
                        s.history[k].content)]
        hasLoad == \E k \in 1..Len(s.tool_cache) :
                       Contains(s.tool_cache[k].key, LoadName)
    IN <<SystemPrompt>> \o
       (IF hasLoad THEN <<Msg("system", 0, <<"previous">>)>> ELSE <<>>) \o
       hist

\* process_chat enters the lock, appends the user message and awaits
\* _get_initial_completion.
ChatStart(t, Sids, Txts) ==
    /\ impl = "agent"
    /\ turn[t].pc = "idle"
    /\ lock = 0
    /\ lock' = t
    /\ \E s \in Sids, txt \in Txts :
        LET s1 == [session[s] EXCEPT
                      !.history = Append(@, Msg("user", t, <<txt>>))]
        IN /\ session' = [session EXCEPT ![s] = s1]
           /\ Set(t, [turn[t] EXCEPT !.pc = "chat_initial", !.sid = s,
                          !.text = txt,
                          !.messages = AgentPrepareMessages(s1)])
    /\ UNCHANGED <<impl, avars, invoked>>

\* The end of process_chat: the assistant message is appended, the session
\* updated and saved, the lock released.
ChatFinish(t, fr, ss, content) ==
    /\ \E saved \in BOOLEAN :
        /\ session' = [ss EXCEPT ![fr.sid] =
                UpdateSession([@ EXCEPT !.history =
                    Append(@, Msg("assistant", t, content))], saved)]
        /\ Set(t, [fr EXCEPT !.pc = "chat_done",
                       !.accumulated_content = content,
                       !.function_calls = fr.tool_results,
                       !.escaped = ~saved,
                       !.raised = IF saved THEN @ ELSE "save"])
    /\ lock' = ReleaseLock(lock, t)

\* _get_initial_completion returned (its failures come back as the warning
\* text).  Without tool calls the turn finishes; with tool calls
\* _process_tool_calls runs them in one go (a call whose arguments do not
\* parse is skipped, a tool that raises ends process_chat with the
\* exception) and the follow-up stream is awaited.  One tool call per
\* response is enough for what is checked of process_chat here.
ChatInitialReturn(t, Contents, Calls) ==
    /\ impl = "agent"
    /\ turn[t].pc = "chat_initial"
    /\ \E content \in Contents, calls \in Calls :
        LET fr == turn[t]
            tcs == NormalizeToolCalls(calls, 0)
        IN IF tcs = <<>>
           THEN /\ ChatFinish(t, fr, session, content)
                /\ UNCHANGED invoked
           ELSE LET tc == tcs[1]
                    args == Loads(tc.args)
                    cache == session[fr.sid].tool_cache
                    out == AgentExecuteToolFunction(tc.name, args, cache,
                                                    invoked[fr.sid])
                IN IF ~IsJson(tc.args)
                   THEN /\ Set(t, [fr EXCEPT !.pc = "chat_followup",
                                       !.accumulated_content = content,
                                       !.tool_calls = tcs])
                        /\ UNCHANGED <<session, invoked, lock>>
                   ELSE IF ~InCache(cache, MakeToolKey(tc.name, args))
                           /\ AgentToolRaises(tc.name, args)
                   THEN /\ Set(t, [fr EXCEPT !.pc = "chat_done",
                                       !.escaped = TRUE, !.raised = "tool"])
                        /\ lock' = ReleaseLock(lock, t)
                        /\ UNCHANGED <<session, invoked>>
                   ELSE /\ Set(t, [fr EXCEPT !.pc = "chat_followup",
                               !.accumulated_content = content,
                               !.tool_calls = tcs,
                               !.tool_results = <<[name |-> tc.name,
                                   arguments |-> args, result |-> out[1]]>>,
                               !.messages = Append(@, ToolMsg(t, tc, out[1]))])
                        /\ session' = [session EXCEPT
                                          ![fr.sid].tool_cache = out[2]]
                        /\ invoked' = [invoked EXCEPT ![fr.sid] = out[3]]
                        /\ UNCHANGED lock
    /\ UNCHANGED <<impl, avars>>

\* The follow-up stream was read to its end: its text, when there is any,
\* replaces the content of INITIAL.
ChatFollowUpReturn(t, Contents) ==
    /\ impl = "agent"
    /\ turn[t].pc = "chat_followup"
    /\ \E new_content \in Contents :
        ChatFinish(t, turn[t], session,
                   IF new_content # <<>> THEN new_content
                   ELSE turn[t].accumulated_content)
    /\ UNCHANGED <<impl, avars, invoked>>

\* process_chat is left by an exception at one of its awaits: the request
\* is cancelled, or the follow-up call fails (nothing in process_chat
\* catches).  The user message stays in the history without an answer.
ChatAbandon(t) ==
    /\ impl = "agent"
    /\ turn[t].pc \in {"chat_initial", "chat_followup"}
    /\ \E cause \in {"cancelled"} \cup
                    (IF turn[t].pc = "chat_followup" THEN {"model"} ELSE {}) :
        Set(t, [turn[t] EXCEPT !.pc = "chat_done", !.escaped = TRUE,
                                !.raised = cause])
    /\ lock' = ReleaseLock(lock, t)
    /\ UNCHANGED <<impl, avars, session, invoked>>

ChatNext(t, Sids, Txts, Contents, Calls) ==
    \/ ChatStart(t, Sids, Txts)
    \/ ChatInitialReturn(t, Contents, Calls)
    \/ ChatFollowUpReturn(t, Contents)
    \/ ChatAbandon(t)

-----------------------------------------------------------------------------
(* A model stream that goes silent: no further chunk and no end of stream. *)
(* The agent's turn is then left only by asyncio.timeout around the phase  *)
(* loop, main.py's only by the read timeout of its OpenAI client, which    *)
(* raises out of the stream.                                               *)

StreamStalls(t) ==
    /\ impl \in {"agent", "main"}
    /\ turn[t].pc \in {"initial_stream", "synth_stream"}
    /\ Set(t, [turn[t] EXCEPT
            !.stalled = TRUE,
            !.pc = IF @ = "initial_stream" THEN "initial_stalled"
                   ELSE "synth_stalled"])
    /\ UNCHANGED <<impl, avars, session, lock, invoked>>

-----------------------------------------------------------------------------
(* clear_session, called between the turns of a session.                   *)

Ended(t) == turn[t].pc \in {"done", "chat_done"}

Quiet(sid) ==
    \A t \in Turns : turn[t].sid = sid => (Ended(t) \/ turn[t].pc = "idle")

\* DehumidifierAgent.clear_session: history, message count and tool cache
\* of the session are replaced by empty ones; nothing is saved.
AgentClearSession(sid) ==
    /\ impl = "agent"
    /\ Quiet(sid)
    /\ session' = [session EXCEPT ![sid].history = <<>>,
                                  ![sid].message_count = 0,
                                  ![sid].tool_cache = <<>>]
    /\ UNCHANGED <<impl, avars, lock, turn, invoked>>

\* main.py's clear_session: the session is deleted from `sessions` and the
\* store is asked to clear it, errors of the store being swallowed.  The
\* session shown afterwards is the one the next get_or_create_session
\* builds: a new one when the store was cleared, else the one loaded from
\* the rows the store still holds.
MainClearSession(sid) ==
    /\ impl = "main"
    /\ Quiet(sid)
    /\ \E cleared \in BOOLEAN :
        session' = [session EXCEPT ![sid] =
            IF cleared THEN NewSession
            ELSE [NewSession EXCEPT !.history = WpLoadHistory(session[sid].stored),
                                    !.stored = session[sid].stored]]
    /\ UNCHANGED <<impl, avars, lock, turn, invoked>>

\* main.py's clear_session while a turn of the session is in flight: the
\* entry is deleted from `sessions`, the turn keeps the object it fetched,
\* and the store is asked to clear the session, errors being swallowed.
MainClearInFlight(sid) ==
    /\ impl = "main"
    /\ ~Quiet(sid)
    /\ \E cleared \in BOOLEAN :
        session' = [session EXCEPT
            ![sid].cleared = TRUE,
            ![sid].stored = IF cleared THEN <<>> ELSE @]
    /\ UNCHANGED <<impl, avars, lock, turn, invoked>>

-----------------------------------------------------------------------------
(* The session stores of session_store.py: impl "memory" is                *)
(* InMemorySessionStore, "wordpress" is WordPressSessionStore.  A stored   *)
(* SessionInfo is the record of its persisted fields; datetime.now() is    *)
(* the store's clock.                                                      *)

MaxClock == 2

EmptyStore ==
    [held |-> [s \in SessionIds |-> <<>>],    \* what the backend keeps
     saved |-> [s \in SessionIds |-> <<>>],   \* the session last saved
     now |-> 0,
     out |-> [op |-> "none", sid |-> "s1", kind |-> "none",
              session |-> <<>>]]

\* The sessions handed to save: histories of a started and of a finished
\* turn, with or without a cached tool result.
StoreHistories ==
    {<<>>,
     <<Msg("user", 1, <<"size">>)>>,
     <<Msg("user", 1, <<"size">>), Msg("assistant", 1, <<"c">>)>>}

StoreCaches ==
    {<<>>,
     <<[key |-> MakeToolKey(LoadName, {"k"}),
        result |-> Result("load", LoadName, {"k"})]>>}

StoreSessions ==
    [session_id : {"s1"}, conversation_history : StoreHistories,
     tool_cache : StoreCaches, created_at : {0}, message_count : {0, 2}]

\* The rows WordPressSessionStore.save posts: the text of a user message
\* under "message", of any other message under "response".
WpRows(history) ==
    [k \in 1..Len(history) |->
        IF history[k].role = "user"
        THEN [message |-> history[k].content, response |-> <<>>]
        ELSE [message |-> <<>>, response |-> history[k].content]]

\* save(session).  The in-memory store keeps the session; the WordPress
\* store posts the rows of its history, a failed request being swallowed.
StoreSave(Sessions) ==
    /\ impl \in {"memory", "wordpress"}
    /\ \E s \in Sessions, ok \in BOOLEAN :
        /\ impl = "memory" => ok
        /\ store' = [store EXCEPT
              !.held[s.session_id] =
                  IF impl = "memory" THEN <<s>>
                  ELSE IF ok THEN <<WpRows(s.conversation_history)>> ELSE @,
              !.saved[s.session_id] = <<s>>,
              !.out = [op |-> "save", sid |-> s.session_id, kind |-> "none",
                       session |-> <<>>]]
    /\ UNCHANGED <<impl, aLog, aDicts, call, recovery, calc, products, ws,
                   tvars>>

\* load(session_id).  The in-memory store answers with what it keeps.  The
\* WordPress store builds ChatMessage(**row) from every row it gets back,
\* which raises for a row without role and content, and a SessionInfo with
\* created_at = now, message_count = len(history) and a new tool_cache.
StoreLoad(Sids) ==
    /\ impl \in {"memory", "wordpress"}
    /\ \E sid \in Sids :
        LET held == store.held[sid]
            answer ==
                IF held = <<>> THEN [kind |-> "none", session |-> <<>>]
                ELSE IF impl = "memory"
                THEN [kind |-> "session", session |-> held]
                ELSE IF held[1] # <<>>
                THEN [kind |-> "raised", session |-> <<>>]
                ELSE [kind |-> "session",
                      session |-> <<[session_id |-> sid,
                                     conversation_history |-> <<>>,
                                     tool_cache |-> <<>>,
                                     created_at |-> store.now,
                                     message_count |-> 0]>>]
        IN store' = [store EXCEPT
               !.out = [op |-> "load", sid |-> sid, kind |-> answer.kind,
                        session |-> answer.session]]
    /\ UNCHANGED <<impl, aLog, aDicts, call, recovery, calc, products, ws,
                   tvars>>

\* Time passes.
StoreTick ==
    /\ impl \in {"memory", "wordpress"}
    /\ store.now < MaxClock
    /\ store' = [store EXCEPT !.now = @ + 1]
    /\ UNCHANGED <<impl, aLog, aDicts, call, recovery, calc, products, ws,
                   tvars>>

-----------------------------------------------------------------------------
(* The load-calculation tool: impl "tools" is calculate_dehum_load of      *)
(* tools.py, "compute" is compute_load_components of main.py called by     *)
(* invoke_tool.  An optional argument is <<>> when absent, <<v>> when      *)
(* supplied.                                                               *)

IdleCalc == [pc |-> "idle", args |-> <<>>, out |-> "none"]

Humidities == {40, 60}
Dimensions == {<<>>, <<0>>, <<3>>}

LoadArgs ==
    [currentRH : Humidities, targetRH : Humidities, length : Dimensions,
     width : Dimensions, height : Dimensions, volume_m3 : Dimensions]

\* calculate_dehum_load: every ValueError of the validation is caught by
\* the function's own except clause and becomes a dict with "error".  A
\* supplied volume_m3 decides alone; length, width and height are then
\* overwritten unread.
ToolsCalculateDehumLoad(a) ==
    IF a.targetRH >= a.currentRH THEN "error"
    ELSE IF a.volume_m3 # <<>>
    THEN (IF a.volume_m3[1] <= 0 THEN "error" ELSE "load")
    ELSE IF a.length # <<>> /\ a.width # <<>> /\ a.height # <<>>
    THEN (IF a.length[1] <= 0 \/ a.width[1] <= 0 \/ a.height[1] <= 0
          THEN "error" ELSE "load")
    ELSE "error"

\* _normalize_dimensions: "raised" when a dimension is missing and no
\* volume is given; values under 0.1 are clamped to 0.1, never rejected.
NormalizeDimensions(a) ==
    IF a.volume_m3 # <<>> THEN "ok"
    ELSE IF a.length = <<>> \/ a.width = <<>> \/ a.height = <<>>
    THEN "raised"
    ELSE "ok"

\* compute_load_components under invoke_tool's try: a ValueError becomes
\* {"error": ...}; target_rh >= current_rh only sets the pulldown to 0.
MainComputeLoad(a) ==
    IF NormalizeDimensions(a) = "raised" THEN "error" ELSE "load"

\* The tool is called with arguments a.
CalcLoad(Args) ==
    /\ impl \in {"tools", "compute"}
    /\ \E a \in Args :
        calc' = [pc |-> "done", args |-> <<a>>,
                 out |-> IF impl = "tools" THEN ToolsCalculateDehumLoad(a)
                         ELSE MainComputeLoad(a)]
    /\ UNCHANGED <<impl, aLog, aDicts, call, recovery, store, products, ws,
                   tvars>>

-----------------------------------------------------------------------------
(* derate_factor of psychrometrics.py (impl "derate").  Temperatures and   *)
(* dew points are whole degrees Celsius, the factor is in hundredths.      *)

\* Room temperatures, and one far below them at which the exponent of the
\* Magnus formula leaves the range of math.exp.
RoomTemps == {-20, 0, 10, 20, 30, 40}
DerateTemps == RoomTemps \cup {-244}
DerateHumidities == {0, 20, 40, 60, 80, 100, 120}

\* saturation_vp: 0.61094 * exp(17.625 t / (t + 243.04)) raises
\* OverflowError when t is just under -243.04.
SaturationVpRaises(t) == t < -243 /\ t > -250

\* dew_point at the grid points for 20, 40, 60, 80 and 100 percent,
\* rounded down to whole degrees.
DewPointTable(t) ==
    CASE t = -20 -> <<-38, -31, -26, -23, -20>>
      [] t = 0   -> <<-21, -13, -7, -4, 0>>
      [] t = 10  -> <<-12, -3, 2, 6, 9>>
      [] t = 20  -> <<-4, 5, 11, 16, 20>>
      [] t = 30  -> <<4, 14, 21, 26, 30>>
      [] t = 40  -> <<12, 23, 30, 35, 40>>

\* dew_point: -100 for a humidity outside (0, 100].
DewPoint(t, rh) ==
    IF rh <= 0 \/ rh > 100 THEN -100 ELSE DewPointTable(t)[rh \div 20]

\* The integer square root.
ISqrt(n) == CHOOSE r \in 0..400 : r * r <= n /\ (r + 1) * (r + 1) > n

\* 100 * (td / 26) ** 1.5 for td >= 0, rounded down.
Pow15(td) == ISqrt((10000 * td * td * td) \div (26 * 26 * 26))

\* The factor without its clamp.
DerateOfUnclamped(td) == Pow15(IF td > 0 THEN td ELSE 0)

\* min(1.0, max(0.1, (max(td, 0.0) / 26.0) ** 1.5)), in hundredths.
DerateOf(td) ==
    LET raw == Pow15(IF td > 0 THEN td ELSE 0)
        low == IF raw > 10 THEN raw ELSE 10
    IN IF low < 100 THEN low ELSE 100

\* derate_factor(temp_c, rh_percent).
DerateFactor(t, rh) ==
    IF rh > 0 /\ rh <= 100 /\ SaturationVpRaises(t)
    THEN [raised |-> TRUE, td |-> 0, factor |-> 0]
    ELSE [raised |-> FALSE, td |-> DewPoint(t, rh),
          factor |-> DerateOf(DewPoint(t, rh))]

\* The function is called; the call before it is kept for comparison.
CalcDerate(Temps, Rhs) ==
    /\ impl = "derate"
    /\ \E t \in Temps, rh \in Rhs :
        calc' = [pc |-> "done", args |-> <<[temp |-> t, rh |-> rh]>>,
                 out |-> DerateFactor(t, rh),
                 prev |-> IF calc.pc = "done"
                          THEN <<[args |-> calc.args[1], out |-> calc.out]>>
                          ELSE <<>>]
    /\ UNCHANGED <<impl, aLog, aDicts, call, recovery, store, products, ws,
                   tvars>>

-----------------------------------------------------------------------------
(* /ws of main.py: websocket_chat.  A connection's frame holds the client  *)
(* address, the session id of its token and the local variable session_id, *)
(* which the receive loop overwrites with the payload's (None is "none").  *)

WS_MAX_CONN_PER_IP == 3
WS_MAX_CONN_PER_SESSION == 2

WsConns == {1, 2, 3}
WsIps == {"ip1", "ip2"}

\* str(data.get("sid", "")) of a token: a session id, "" without one.
WsSids == SessionIds \cup {""}

IdleWs ==
    [ip_active |-> [a \in WsIps |-> 0],          \* _ws_active_ip
     session_active |-> [s \in WsSids |-> 0],    \* _ws_active_session
     conn |-> [c \in WsConns |->
                 [pc |-> "closed", ip |-> "ip1", token_sid |-> "",
                  session_id |-> "none"]],
     last |-> "none"]                            \* how the last connect ended

\* A client connects.  A bad origin or token closes with 1008 before any
\* counter is read; at a limit the connection is closed with 1008; else
\* both counters are incremented and the connection is accepted.
WsConnect(c) ==
    /\ impl = "main"
    /\ ws.conn[c].pc = "closed"
    /\ \E valid \in BOOLEAN, ip \in WsIps, sid \in WsSids :
        ws' = IF \/ ~valid
                 \/ ws.ip_active[ip] >= WS_MAX_CONN_PER_IP
                 \/ ws.session_active[sid] >= WS_MAX_CONN_PER_SESSION
              THEN [ws EXCEPT !.last = "rejected"]
              ELSE [ws EXCEPT
                       !.ip_active[ip] = @ + 1,
                       !.session_active[sid] = @ + 1,
                       !.conn[c] = [pc |-> "open", ip |-> ip,
                                    token_sid |-> sid, session_id |-> sid],
                       !.last = "accepted"]
    /\ UNCHANGED <<impl, aLog, aDicts, call, recovery, store, calc, products,
                   tvars>>

\* The receive loop reads a payload.  Text that is no JSON is answered
\* with invalid_json; otherwise session_id = payload.get("session_id") is
\* assigned before the payload is validated, so a missing or mismatching
\* id stays in the variable when the loop continues.
WsReceive(c, Payloads) ==
    /\ impl = "main"
    /\ ws.conn[c].pc = "open"
    /\ \E json \in BOOLEAN, p \in Payloads :
        ws' = IF json THEN [ws EXCEPT !.conn[c].session_id = p] ELSE ws
    /\ UNCHANGED <<impl, aLog, aDicts, call, recovery, store, calc, products,
                   tvars>>

\* The connection ends (disconnect, streaming error): the finally clause
\* decrements the counter of the address and, when the local session_id is
\* truthy and its counter positive, the counter of that id.
WsClose(c) ==
    /\ impl = "main"
    /\ ws.conn[c].pc = "open"
    /\ LET ip == ws.conn[c].ip
           sid == ws.conn[c].session_id
           w1 == [ws EXCEPT !.ip_active[ip] = IF @ > 0 THEN @ - 1 ELSE @,
                            !.conn[c] = IdleWs.conn[c]]
       IN ws' = IF sid \notin {"none", ""} /\ ws.session_active[sid] > 0
                THEN [w1 EXCEPT !.session_active[sid] = @ - 1]
                ELSE w1
    /\ UNCHANGED <<impl, aLog, aDicts, call, recovery, store, calc, products,
                   tvars>>

-----------------------------------------------------------------------------
(* The catalog context: prepare_catalog_message of main.py (impl "main")   *)
(* and _prepare_catalog_message of the agent (impl "agent").  Capacities   *)
(* are litres per day, performance factors hundredths, effective           *)
(* capacities tenths of a litre per day.                                   *)

\* The product database: a portable unit, a pool-safe ducted unit whose SKU
\* main.py bans, and an entry without capacity (capacity_lpd None, -1).
ProductDb ==
    <<[sku |-> "P50", type |-> "portable", capacity_lpd |-> 50,
       performance_factor |-> 100, pool_safe |-> FALSE],
      [sku |-> "ST600", type |-> "ducted", capacity_lpd |-> 100,
       performance_factor |-> 80, pool_safe |-> TRUE],
      [sku |-> "D200", type |-> "ducted", capacity_lpd |-> 200,
       performance_factor |-> 100, pool_safe |-> TRUE],
      [sku |-> "W0", type |-> "wall_mount", capacity_lpd |-> -1,
       performance_factor |-> 100, pool_safe |-> TRUE]>>

\* load_info of the latest load calculation and the preferred types.
LoadInfos ==
    [indoorTemp : {20, 30}, targetRH : {40, 60}, pool_required : BOOLEAN]
PreferredTypes == {<<>>, <<"portable">>, <<"ducted">>}

\* get_catalog_with_effective_capacity: a new dict per product that has a
\* capacity (and is pool safe when asked), with capacity_lpd *
\* performance_factor as its effective capacity.
GetCatalogWithEffectiveCapacity(db, include_pool_safe_only) ==
    LET kept == SelectSeq(db, LAMBDA p :
                    /\ include_pool_safe_only => p.pool_safe
                    /\ p.capacity_lpd # -1)
    IN [k \in DOMAIN kept |->
           [sku |-> kept[k].sku, type |-> kept[k].type,
            effective_capacity_lpd |->
                (kept[k].capacity_lpd * kept[k].performance_factor) \div 10,
            capacity_lpd |-> kept[k].capacity_lpd]]

\* The catalog of the message: filtered by preferred type (and by the
\* banned SKUs in main.py), every effective capacity multiplied by the
\* derate factor and rounded to one decimal.
DeratedCatalog(i, db, load_info, preferred_types) ==
    LET all == GetCatalogWithEffectiveCapacity(db, load_info.pool_required)
        typed == IF preferred_types = <<>> THEN all
                 ELSE SelectSeq(all, LAMBDA p :
                          p.type \in Range(preferred_types))
        catalog == IF i = "main"
                   THEN SelectSeq(typed, LAMBDA p :
                            p.sku \notin {"ST600", "ST1000"})
                   ELSE typed
        derate == DerateFactor(load_info.indoorTemp,
                               load_info.targetRH).factor
    IN [k \in DOMAIN catalog |->
           [catalog[k] EXCEPT !.effective_capacity_lpd =
                (@ * derate + 50) \div 100]]

\* The derated values are written into the database entries themselves.
ProductsSharedWithCatalog(db, catalog) ==
    [k \in DOMAIN db |->
        IF \E j \in DOMAIN catalog : catalog[j].sku = db[k].sku
        THEN LET j == CHOOSE j \in DOMAIN catalog :
                          catalog[j].sku = db[k].sku
             IN [db[k] EXCEPT !.capacity_lpd =
                     catalog[j].effective_capacity_lpd \div 10]
        ELSE db[k]]

\* The database after the for loop over the catalog: the loop writes into
\* the dicts get_catalog_with_effective_capacity made, the entries of the
\* database are not among them.
ProductsAfterCatalog(db, catalog) == db

\* The catalog message is built (the session is not an argument).
CatalogBuild(Infos, Prefs) ==
    /\ impl \in {"agent", "main"}
    /\ \E load_info \in Infos, preferred_types \in Prefs :
        LET catalog == DeratedCatalog(impl, products, load_info,
                                      preferred_types)
        IN /\ calc' = [pc |-> "done",
                       args |-> <<[load_info |-> load_info,
                                   preferred_types |-> preferred_types]>>,
                       out |-> [pool_required |-> load_info.pool_required,
                                preferred_types |-> preferred_types,
                                catalog |-> catalog],
                       prev |-> IF calc.pc = "done"
                                THEN <<[args |-> calc.args[1],
                                        out |-> calc.out]>>
                                ELSE <<>>]
           /\ products' = ProductsAfterCatalog(products, catalog)
    /\ UNCHANGED <<impl, aLog, aDicts, call, recovery, store, ws, tvars>>

-----------------------------------------------------------------------------
(* A model call under retry: impl "completion" is completion of main.py,   *)
(* "engine" is _call_with_retry of engine.py (both tenacity:               *)
(* retry_if_exception, stop_after_attempt(4), reraise) and "legacy" is the *)
(* loop of _make_api_call_with_retry of ai_agent.py.                       *)
(* An error is what the API raised (its kind) and the text str(error)      *)
(* gives, lower-cased, as tokens.                                          *)

MAX_RETRIES == 3

NonTransient == {"bad_request", "auth"}

\* The keywords of is_retryable_error / _is_retryable_error.
RetryKeywords ==
    {"rate limit", "429", "connection", "timeout", "network", "502", "503",
     "504", "service unavailable", "internal server error"}

\* Errors of the API with the text of their message: a malformed request,
\* a request over the context length ("... resulted in 10429 tokens"), a
\* rejected key, a rate limit, a dropped connection, a server error.
ApiErrors ==
    {[kind |-> "bad_request", text |-> <<"invalid", "request">>],
     [kind |-> "bad_request",
      text |-> <<"context", "length", "10", "429", "tokens">>],
     [kind |-> "auth", text |-> <<"incorrect", "api", "key">>],
     [kind |-> "rate_limit", text |-> <<"error", "429", "rate limit">>],
     [kind |-> "connection", text |-> <<"connection", "error">>],
     [kind |-> "server", text |-> <<"error", "503">>]}

NoError == [kind |-> "none", text |-> <<>>]

\* Every error is retried.
IsRetryableAny(e) == TRUE

\* any(k in str(error).lower() for k in keywords): a substring test.
IsRetryableError(e) == \E k \in RetryKeywords : Contains(e.text, <<k>>)

IdleCall == [pc |-> "idle", attempts |-> 0, sleeps |-> 0, err |-> NoError]

\* One attempt more is allowed before the call gives up.
LastAttemptLate(n) == n >= MAX_RETRIES + 2

\* stop_after_attempt(4) of the tenacity decorators and
\* `attempt == MAX_RETRIES` of the legacy loop: attempt n is the last one.
LastAttempt(n) == n >= MAX_RETRIES + 1

Retrying == impl \in {"engine", "legacy", "completion"}

\* The caller awaits the call: first attempt.
RetryStart ==
    /\ Retrying
    /\ call.pc = "idle"
    /\ call' = [call EXCEPT !.pc = "attempt", !.attempts = 1]
    /\ UNCHANGED <<impl, aLog, aDicts, recovery, store, calc, products, ws,
                   tvars>>

\* The attempt returns a completion (or a stream).
RetryReturn ==
    /\ Retrying
    /\ call.pc = "attempt"
    /\ call' = [call EXCEPT !.pc = "returned"]
    /\ UNCHANGED <<impl, aLog, aDicts, recovery, store, calc, products, ws,
                   tvars>>

\* The attempt raises e: the last attempt and an error the predicate
\* rejects re-raise it, any other error is followed by a backoff sleep.
RetryFail(Errors) ==
    /\ Retrying
    /\ call.pc = "attempt"
    /\ \E e \in Errors :
        call' = IF ~LastAttempt(call.attempts) /\ IsRetryableError(e)
                THEN [call EXCEPT !.pc = "backoff", !.err = e,
                                  !.sleeps = @ + 1]
                ELSE [call EXCEPT !.pc = "raised", !.err = e]
    /\ UNCHANGED <<impl, aLog, aDicts, recovery, store, calc, products, ws,
                   tvars>>

\* The backoff sleep is over: next attempt.
RetryBackoffEnds ==
    /\ Retrying
    /\ call.pc = "backoff"
    /\ call' = [call EXCEPT !.pc = "attempt", !.attempts = @ + 1]
    /\ UNCHANGED <<impl, aLog, aDicts, recovery, store, calc, products, ws,
                   tvars>>

\* str(CancelledError()) of a cancelled task: no text.
CancelledText == <<>>

\* The awaiting task is cancelled.  tenacity catches the CancelledError of
\* an attempt and asks the predicate, which finds no keyword in its text
\* and lets it be re-raised; `except Exception` of the legacy loop does not
\* catch it; a cancelled backoff sleep raises out of either.
RetryCancel ==
    /\ Retrying
    /\ call.pc \in {"attempt", "backoff"}
    /\ LET e == [kind |-> "cancelled", text |-> CancelledText]
       IN call' = IF /\ call.pc = "attempt"
                     /\ impl # "legacy"
                     /\ ~LastAttempt(call.attempts)
                     /\ IsRetryableError(e)
                  THEN [call EXCEPT !.pc = "backoff", !.err = e,
                                    !.sleeps = @ + 1]
                  ELSE [call EXCEPT !.pc = "cancelled", !.err = e]
    /\ UNCHANGED <<impl, aLog, aDicts, recovery, store, calc, products, ws,
                   tvars>>

TurnsIdle ==
    /\ session = [s \in SessionIds |-> NewSession]
    /\ lock = 0
    /\ turn = [t \in Turns |-> IdleTurn]
    /\ invoked = [s \in SessionIds |-> <<>>]
    /\ call = IdleCall
    /\ recovery = [s \in SessionIds |->
                      [is_streaming |-> FALSE, responses |-> <<>>]]
    /\ store = EmptyStore
    /\ calc = IdleCalc
    /\ products = ProductDb
    /\ ws = IdleWs

RetryNext ==
    \/ RetryStart
    \/ RetryReturn
    \/ RetryFail(ApiErrors)
    \/ RetryBackoffEnds
    \/ RetryCancel

RetryInit ==
    /\ impl \in {"engine", "legacy", "completion"}
    /\ aLog = <<>>
    /\ aDicts = <<>>
    /\ TurnsIdle

SpecRetry == RetryInit /\ [][RetryNext]_vars

StoreInit ==
    /\ impl \in {"memory", "wordpress"}
    /\ aLog = <<>>
    /\ aDicts = <<>>
    /\ TurnsIdle

StoreNext ==
    \/ StoreSave(StoreSessions)
    \/ StoreLoad(SessionIds)
    \/ StoreTick

SpecStore == StoreInit /\ [][StoreNext]_vars

CalcInit ==
    /\ impl \in {"tools", "compute"}
    /\ aLog = <<>>
    /\ aDicts = <<>>
    /\ TurnsIdle

CalcNext == CalcLoad(LoadArgs)

SpecCalc == CalcInit /\ [][CalcNext]_vars

DerateInit ==
    /\ impl = "derate"
    /\ aLog = <<>>
    /\ aDicts = <<>>
    /\ TurnsIdle

DerateNext == CalcDerate(DerateTemps, DerateHumidities)

CatalogInit ==
    /\ impl \in {"agent", "main"}
    /\ aLog = <<>>
    /\ aDicts = <<>>
    /\ TurnsIdle

CatalogNext == CatalogBuild(LoadInfos, PreferredTypes)

SpecCatalog == CatalogInit /\ [][CatalogNext]_vars

WsInit ==
    /\ impl = "main"
    /\ aLog = <<>>
    /\ aDicts = <<>>
    /\ TurnsIdle

WsNext ==
    \E c \in WsConns :
        \/ WsConnect(c)
        \/ WsReceive(c, SessionIds \cup {"none"})
        \/ WsClose(c)

SpecWs == WsInit /\ [][WsNext]_vars

SpecDerate == DerateInit /\ [][DerateNext]_vars

-----------------------------------------------------------------------------
(* Specification of the assembly alone: any delta sequence up to MaxDeltas  *)
(* is delivered to the assembly loop of either implementation.             *)

AssembleInit ==
    /\ impl \in {"agent", "main"}
    /\ aLog = <<>>
    /\ aDicts = <<>>
    /\ TurnsIdle

AssembleDelta ==
    /\ Len(aLog) < MaxDeltas
    /\ \E d \in Deltas :
        /\ aLog' = Append(aLog, d)
        /\ aDicts' = ApplyDelta(impl, aDicts, d)
    /\ UNCHANGED <<impl, call, recovery, store, calc, products, ws, tvars>>

AssembleNext == AssembleDelta

SpecAssemble == AssembleInit /\ [][AssembleNext]_vars

-----------------------------------------------------------------------------
(* One turn at a time, every stream over the full chunk alphabet.          *)

Chunks1 == {ContentChunk, EmptyChunk} \cup ToolChunks(Deltas)

\* The answers of the planning completion: no call, or a batch of calls
\* that come whole (a known tool, the other known tool, an unknown tool, a
\* call whose arguments do not parse).
PlanCalls ==
    {[name |-> LoadName, args |-> <<"{", "k", "}">>],
     [name |-> DocsName, args |-> <<"{", "k", "}">>],
     [name |-> <<"_load">>, args |-> <<"{", "k", "}">>],
     [name |-> DocsName, args |-> <<"{">>]}

RECURSIVE SeqsUpTo(_, _)
SeqsUpTo(S, n) ==
    IF n = 0 THEN {<<>>}
    ELSE LET shorter == SeqsUpTo(S, n - 1)
         IN shorter \cup {Append(q, x) : q \in shorter, x \in S}

Plans1 == SeqsUpTo(PlanCalls, MaxPlanBatch)

Init ==
    /\ impl \in {"agent", "main", "executor"}
    /\ aLog = <<>>
    /\ aDicts = <<>>
    /\ TurnsIdle

Next ==
    \/ AgentNext(1, {"s1"}, Texts, Chunks1)
    \/ MainNext(1, {"s1"}, Texts, Chunks1, Plans1)
    \/ ExecNext(1, {"s1"}, Plans1)
    \/ StreamStalls(1)

Spec == Init /\ [][Next]_vars

-----------------------------------------------------------------------------
(* Two requests in flight at once, for the same session or for two         *)
(* sessions, over a small alphabet: a content chunk or one complete load   *)
(* call per model stream.                                                  *)

LoadCall == [name |-> LoadName, args |-> <<"{", "k", "}">>]

ChunksConc ==
    {ContentChunk,
     [content |-> <<>>, tcs |-> <<[index |-> 0, name |-> LoadCall.name,
                                   args |-> LoadCall.args]>>]}

NextConc ==
    \E t \in Turns :
        \/ AgentNext(t, SessionIds, {"size"}, ChunksConc)
        \/ MainNext(t, SessionIds, {"size"}, ChunksConc, {<<>>})
        \/ ExecNext(t, SessionIds, {<<LoadCall>>})
        \/ ChatNext(t, SessionIds, {"size"}, {<<>>, <<"c">>},
                    {<<>>, <<LoadCall>>})

SpecConc == Init /\ [][NextConc]_vars

-----------------------------------------------------------------------------
(* The turns of one session one after the other, with clear_session        *)
(* between them, over the small alphabet.                                  *)

NextSeq ==
    \/ \E t \in Turns :
        /\ \A u \in Turns : u < t => Ended(u)
        /\ \/ AgentNext(t, {"s1"}, {"size"}, ChunksConc)
           \/ MainNext(t, {"s1"}, {"size"}, ChunksConc, {<<>>})
           \/ ExecNext(t, {"s1"}, {<<LoadCall>>})
           \/ ChatNext(t, {"s1"}, {"size"}, {<<>>, <<"c">>},
                       {<<>>, <<LoadCall>>})
    \/ AgentClearSession("s1")
    \/ MainClearSession("s1")

SpecSeq == Init /\ [][NextSeq]_vars

\* The turns of one session one after the other in main.py, with
\* clear_session called while one of them runs.
NextClear ==
    \/ \E t \in Turns :
        /\ \A u \in Turns : u < t => Ended(u)
        /\ MainNext(t, {"s1"}, {"size"}, ChunksConc, {<<>>})
    \/ MainClearInFlight("s1")

SpecClear == Init /\ [][NextClear]_vars

-----------------------------------------------------------------------------
(* The turns of one session one after the other, each INITIAL stream       *)
(* carrying whole tool calls: load calculations for two rooms, one the     *)
(* load tool rejects, one without arguments, and calls of other tools      *)
(* whose argument text holds the load tool's name.                         *)

LoadCalls ==
    {[index |-> 0, name |-> LoadName, args |-> <<"{", "k", "}">>],
     [index |-> 1, name |-> LoadName, args |-> <<"{", "m", "}">>],
     [index |-> 0, name |-> LoadName, args |-> <<"{", "b", "}">>],
     [index |-> 0, name |-> LoadName, args |-> <<"{", "}">>],
     [index |-> 0, name |-> DocsName,
      args |-> <<"{", "calculate_dehum", "_load", "}">>],
     [index |-> 0, name |-> <<"_load">>,
      args |-> <<"{", "calculate_dehum", "_load", "}">>]}

\* The first turn may ask for any of them, a later turn asks for the load
\* of the second room again.
ChunksLoads(t) ==
    {ContentChunk} \cup
    ToolChunks(IF t = 1 THEN LoadCalls
               ELSE {c \in LoadCalls : c.args = <<"{", "m", "}">>})

NextLoads ==
    \E t \in Turns :
        /\ \A u \in Turns : u < t => Ended(u)
        /\ \/ AgentNext(t, {"s1"}, {"size"}, ChunksLoads(t))
           \/ MainNext(t, {"s1"}, {"size"}, ChunksLoads(t), {<<>>})

SpecLoads == Init /\ [][NextLoads]_vars

-----------------------------------------------------------------------------
(* Abort and recovery of a session of the agent, while turns of the        *)
(* session run (the non-streaming process_chat keeps the lock while it     *)
(* waits for the model).                                                   *)

MaxAborts == 1

\* The recovery response: a final event with metadata {"recovery": True}.
AbortResponse == Ev("recovery", TRUE, "none", "recovery", -1)

\* _create_abort_response: _set_streaming_state(session, False), then the
\* recovery response is returned.  _session_lock is not touched.
AgentAbortResponse(sid) ==
    /\ impl = "agent"
    /\ Len(recovery[sid].responses) < MaxAborts
    /\ recovery' = [recovery EXCEPT
                       ![sid].is_streaming = FALSE,
                       ![sid].responses = Append(@, AbortResponse)]
    /\ UNCHANGED <<impl, aLog, aDicts, call, store, calc, products, ws, tvars>>

AbortInit ==
    /\ impl = "agent"
    /\ aLog = <<>>
    /\ aDicts = <<>>
    /\ TurnsIdle

NextAbort ==
    \/ \E t \in Turns :
        \/ AgentNext(t, {"s1"}, {"size"}, ChunksConc)
        \/ ChatNext(t, {"s1"}, {"size"}, {<<>>, <<"c">>},
                    {<<>>, <<LoadCall>>})
    \/ AgentAbortResponse("s1")

SpecAbort == AbortInit /\ [][NextAbort]_vars

-----------------------------------------------------------------------------
(* Cancellation: the client of a streaming turn disconnects, or the task   *)
(* awaiting a model call is cancelled.                                     *)

\* CancelledError is raised at the suspension point of the turn: a model
\* call or the next chunk of a model stream.  It is no Exception, so the
\* agent's except clauses do not see it; generate_stream of main.py
\* re-raises it and runs its finally clause.  No event is yielded.
TurnCancel(t) ==
    /\ impl \in {"agent", "main"}
    /\ turn[t].pc \in {"initial_call", "initial_stream", "plan",
                       "synth_call", "synth_stream"}
    /\ Set(t, [turn[t] EXCEPT !.pc = "done", !.escaped = TRUE,
                              !.raised = "cancelled",
                              !.transport = "cancelled"])
    /\ lock' = ReleaseLock(lock, t)
    /\ IF impl = "main"
       THEN \E ok \in BOOLEAN :
               session' = MainFinally(session, turn[t].sid, ok)
       ELSE UNCHANGED session
    /\ UNCHANGED <<impl, avars, invoked>>

CancelInit ==
    /\ impl \in {"agent", "main", "engine", "legacy", "completion"}
    /\ aLog = <<>>
    /\ aDicts = <<>>
    /\ TurnsIdle

NextCancel ==
    \/ AgentNext(1, {"s1"}, {"size"}, ChunksConc)
    \/ MainNext(1, {"s1"}, {"size"}, ChunksConc, {<<>>})
    \/ ChatNext(1, {"s1"}, {"size"}, {<<>>, <<"c">>}, {<<>>, <<LoadCall>>})
    \/ TurnCancel(1)
    \/ RetryNext

SpecCancel == CancelInit /\ [][NextCancel]_vars

-----------------------------------------------------------------------------
(* Properties.                                                             *)

Streaming == impl \in {"agent", "main"}
Done(t) == turn[t].pc = "done"
InFlight(t) == turn[t].pc \notin {"idle", "done"}
\* The request passed validation and the turn took up the session.
Accepted(t) == turn[t].messages # <<>>
Finals(evs) == {k \in 1..Len(evs) : evs[k].is_final}

\* C1, as claimed: a turn of process_chat_streaming that has run to its end
\* has emitted exactly one event with is_final = true, and that event is
\* the last one.  Refuted by main.py, where an exception leaves the
\* generator and the turn ends with no final event.
C1_ExactlyOneFinalLast ==
    \A t \in Turns :
        (Streaming /\ Done(t)) =>
            /\ Cardinality(Finals(turn[t].events)) = 1
            /\ Finals(turn[t].events) = {Len(turn[t].events)}

\* C2, as claimed: at most one turn per session id is in flight at any
\* time.  Refuted: neither service holds a lock across the turn.
C2_OneTurnInFlight ==
    \A t1, t2 \in Turns :
        (Streaming /\ t1 # t2 /\ InFlight(t1) /\ InFlight(t2)) =>
            turn[t1].sid # turn[t2].sid

\* C3, as claimed: each finished turn has contributed to the history of its
\* session its user message immediately followed by its own assistant
\* message, and no message twice.  Refuted by main.py, whose streaming
\* path never appends the assistant message.
C3_HistorySerial ==
    \A t \in Turns :
        (Streaming /\ Done(t) /\ Accepted(t)) =>
            LET h == session[turn[t].sid].history
                mine == {k \in 1..Len(h) : h[k].turn = t}
            IN \E k \in 1..Len(h) :
                /\ mine = {k, k + 1}
                /\ k + 1 <= Len(h)
                /\ h[k].role = "user"
                /\ h[k + 1].role = "assistant"

\* C4, as claimed: within a session a tool other than document retrieval
\* is entered at most once per (name, arguments) pair, and two requests of
\* one pair get identical results.  Refuted by main.py's invoke_tool, which
\* answers the second request of a turn with a skipped_duplicate note.
C4_OnceAndIdentical ==
    /\ \A s \in SessionIds : \A i, j \in 1..Len(invoked[s]) :
          (i # j /\ invoked[s][i].name # DocsName) =>
              invoked[s][i] # invoked[s][j]
    /\ \A t \in Turns :
          LET rs == turn[t].tool_results
          IN \A i, j \in 1..Len(rs) :
              (/\ rs[i].name = rs[j].name
               /\ rs[i].arguments = rs[j].arguments
               /\ rs[i].name # DocsName) => rs[i].result = rs[j].result

\* C5, as claimed: the phase changes only INITIAL -> TOOLS (exactly when
\* INITIAL produced tool calls), INITIAL -> FINAL (exactly when it produced
\* none), TOOLS -> SYNTHESIS and SYNTHESIS -> FINAL.  Refuted by main.py,
\* which goes from INITIAL straight to the recommendations phase when the
\* user's text contains "recommend" and no tool call was made.
C5_PhaseStep ==
    \A t \in Turns :
        LET p == turn[t].current_phase
            q == turn'[t].current_phase
            calls == turn'[t].tool_calls
        IN p # q =>
            \/ p = "none" /\ q = "initial_summary"
            \/ p = "initial_summary" /\ q = "tools" /\ calls # <<>>
            \/ p = "initial_summary" /\ q = "final" /\ calls = <<>>
            \/ p = "tools" /\ q = "recommendations"
            \/ p = "recommendations" /\ q = "final"

C5_PhaseTransitions == [][C5_PhaseStep]_vars

\* C6, as claimed: when no model call fails, no tool call fails to return
\* and no timeout fires, a turn that has ended has reached FINAL.  Refuted
\* by main.py: json.loads of a call's arguments and the state update after
\* a load call raise out of the phase loop.
C6_ReachesFinal ==
    \A t \in Turns :
        (/\ Streaming /\ Done(t) /\ Accepted(t)
         /\ turn[t].raised \in {"none", "json", "state_update"}) =>
            turn[t].current_phase = "final"

\* C7, as claimed (main.py): a failure during the turn surfaces as an error
\* event with is_final = true emitted by the turn, and no exception leaves
\* process_chat_streaming.  Refuted: nothing in main.py's turn catches.
C7_FailureIsFinalEvent ==
    \A t \in Turns :
        (impl = "main" /\ Done(t) /\ turn[t].raised # "none") =>
            /\ ~turn[t].escaped
            /\ turn[t].events # <<>>
            /\ turn[t].events[Len(turn[t].events)].is_final
            /\ turn[t].events[Len(turn[t].events)].type = "error"

\* C8, as claimed: a tool call assembled in INITIAL whose arguments are not
\* valid JSON does not abort the turn; a tool-error progress event is sent
\* for it and the turn reaches FINAL.  Refuted by main.py: finalize_tool_calls
\* drops such a call without an event, and empty arguments pass it and make
\* json.loads raise in stream_tools_phase.
C8_InvalidJsonSkipped ==
    \A t \in Turns :
        (Streaming /\ Done(t) /\ turn[t].raised \in {"none", "json"}) =>
            \A k \in 1..Len(turn[t].tool_call_dicts) :
                ~IsJson(turn[t].tool_call_dicts[k].args) =>
                    /\ ~turn[t].escaped
                    /\ turn[t].current_phase = "final"
                    /\ \E e \in Range(turn[t].events) :
                          /\ e.status = "tool_error"
                          /\ e.call = turn[t].tool_call_dicts[k].id

\* Concatenation, in arrival order, of the argument fragments that the
\* deltas of log carry for stream index idx.
RECURSIVE ArgsFor(_, _)
ArgsFor(log, idx) ==
    IF log = <<>> THEN <<>>
    ELSE (IF Head(log).index = idx THEN Head(log).args ELSE <<>>)
         \o ArgsFor(Tail(log), idx)

\* C9: after any sequence of deltas, the arguments assembled for an index
\* are the concatenation, in arrival order, of the argument fragments
\* delivered for that index, and an index has a record exactly when a delta
\* arrived for it.
C9_ArgumentsConcatenate ==
    \A idx \in 0..MaxIndex :
        LET k == DictPos(aDicts, idx)
        IN IF \E n \in 1..Len(aLog) : aLog[n].index = idx
           THEN k # 0 /\ aDicts[k].args = ArgsFor(aLog, idx)
           ELSE k = 0

\* Fragments of two indices arrived interleaved, each with arguments.
C9_Interleaved ==
    /\ Len(aLog) = 3
    /\ aLog[1].index = 0 /\ aLog[2].index = 1 /\ aLog[3].index = 0
    /\ \A n \in 1..3 : aLog[n].args # <<>>
    /\ Len(aDicts) = 2
    /\ Len(aDicts[1].args) > Len(aLog[1].args)

\* C10, as claimed: a call of an unknown tool never raises out of the
\* executor or the turn, and once the loop has passed it the call has an
\* error result of its own.  Refuted by ToolExecutor._invoke and by main.py's
\* invoke_tool, which raise ValueError.
C10_UnknownToolIsCallError ==
    \A t \in Turns :
        Done(t) =>
            /\ turn[t].raised # "unknown_tool"
            /\ \A k \in 1..Len(turn[t].tool_calls) :
                  (/\ k < turn[t].i
                   /\ turn[t].tool_calls[k].name \notin {LoadName, DocsName}
                   /\ IsJson(turn[t].tool_calls[k].args)) =>
                      \E r \in Range(turn[t].tool_results) :
                          /\ r.name = turn[t].tool_calls[k].name
                          /\ r.result.kind = "error"

\* The turn is over, whichever entry point ran it.

\* C11: a turn that has ended (normally, by timeout, by an exception or by
\* cancellation) does not hold the session lock, and when no turn is under
\* way the lock is free.
C11_LockFreeAfterTurn ==
    /\ \A t \in Turns : Ended(t) => lock # t
    /\ (\A t \in Turns : Ended(t) \/ turn[t].pc = "idle") => lock = 0

\* A process_chat turn was cancelled while it held the lock in a model call.
C11_CancelledUnderLock ==
    \E t \in Turns :
        /\ turn[t].pc = "chat_done"
        /\ turn[t].raised = "cancelled"
        /\ Len(session[turn[t].sid].history) > 0
        /\ lock = 0

\* C12, as claimed: no turn waits for a lock that a turn of a different
\* session holds.  Refuted: the agent has one _session_lock for all
\* sessions and process_chat holds it across its model calls.
C12_NoCrossSessionBlocking ==
    \A t1, t2 \in Turns :
        ~(/\ lock = t1
          /\ turn[t1].pc \in {"chat_initial", "chat_followup"}
          /\ turn[t2].pc = "final"
          /\ turn[t2].sid # turn[t1].sid)

\* C13, as claimed: a turn one of whose model streams went silent ends by
\* the overall timeout with exactly one final event, an error, as its last
\* event.  Refuted by main.py, which has no timeout around its phase loop:
\* the client's read timeout raises out of the turn and no final event is
\* emitted.
C13_StallEndsWithFinalError ==
    \A t \in Turns :
        (Streaming /\ Done(t) /\ turn[t].stalled) =>
            /\ turn[t].raised = "timeout"
            /\ Finals(turn[t].events) = {Len(turn[t].events)}
            /\ turn[t].events # <<>>
            /\ turn[t].events[Len(turn[t].events)].type = "error"

\* The text of the content chunks among evs, in the order sent.
RECURSIVE Streamed(_)
Streamed(evs) ==
    IF evs = <<>> THEN <<>> ELSE Head(evs).content \o Streamed(Tail(evs))

\* C14, as claimed, for a turn on a fresh session: when the turn has sent
\* its final event, the history of the session is the user's message
\* followed by one assistant message whose content is the text streamed in
\* the turn.  Refuted by main.py, whose streaming path appends no assistant
\* message.
C14_HistoryGrowsByTwo ==
    \A t \in Turns :
        (/\ Streaming /\ Done(t) /\ turn[t].events # <<>>
         /\ turn[t].events[Len(turn[t].events)].type = "final") =>
            LET h == session[turn[t].sid].history
            IN /\ Len(h) = 2
               /\ h[1].role = "user" /\ h[1].content = <<turn[t].text>>
               /\ h[2].role = "assistant"
               /\ h[2].content = Streamed(turn[t].events)

\* The events that report a tool call as run to completion.
CompletedCalls(evs) == SelectSeq(evs, LAMBDA e : e.status = "tool_completed")

\* C15, as claimed: the function_calls of the final event is the list of
\* the results of the tool calls that ran in the turn, one per completed
\* call and in the order of the calls, also when the catalog context could
\* not be built.  Refuted by the agent, whose tools phase drops the list
\* when the catalog step raises.
C15_FinalCarriesEveryResult ==
    \A t \in Turns :
        (/\ Streaming /\ Done(t) /\ turn[t].events # <<>>
         /\ turn[t].events[Len(turn[t].events)].type = "final") =>
            LET fc == turn[t].events[Len(turn[t].events)].function_calls
            IN /\ Len(fc) = Len(CompletedCalls(turn[t].events))
               /\ fc = turn[t].tool_results

IsPrefix(a, b) == Len(a) <= Len(b) /\ SubSeq(b, 1, Len(a)) = a

\* The message old is still the message new, its text at most extended
\* (the agent streams a turn's answer into the message it appended).
SameMessage(old, new) ==
    /\ new.role = old.role
    /\ new.turn = old.turn
    /\ IsPrefix(old.content, new.content)

\* C16, as claimed: no operation on a session removes, replaces or reorders
\* a message of its stored history; after every step each message stored
\* before is still at its place.  Refuted by clear_session, which empties
\* the history.
C16_HistoryAppendOnly ==
    [][\A sid \in SessionIds :
          LET old == session[sid].history
              new == session'[sid].history
          IN /\ Len(old) <= Len(new)
             /\ \A k \in 1..Len(old) : SameMessage(old[k], new[k])]_vars

\* C17, as claimed: no session's tool cache ever holds the result of a
\* retrieve_relevant_docs call, in any of the three implementations.
\* Refuted by main.py's invoke_tool, which caches every tool's result.
C17_DocsNeverCached ==
    \A sid \in SessionIds :
        \A i \in 1..Len(session[sid].tool_cache) :
            session[sid].tool_cache[i].result.name # DocsName

\* C18, as claimed: every key under which an implementation caches a tool
\* result is the function name, "|" and the canonical JSON of the call's
\* arguments (keys sorted, no whitespace), the string _make_tool_key
\* builds.  Refuted by main.py's invoke_tool, whose json.dumps keeps the
\* default separators.
C18_CanonicalCacheKey ==
    \A sid \in SessionIds :
        \A i \in 1..Len(session[sid].tool_cache) :
            LET e == session[sid].tool_cache[i]
            IN /\ e.key = MakeToolKey(e.result.name, e.result.args)
               /\ " " \notin Range(e.key)

\* The tool was called on behalf of session sid with these arguments.
InvokedIn(sid, name, args) ==
    \E j \in 1..Len(invoked[sid]) :
        invoked[sid][j] = [name |-> name, args |-> args]

HoldsLoad(sid) ==
    \E i \in 1..Len(session[sid].tool_cache) :
        session[sid].tool_cache[i].result.kind = "load"

\* C20, as claimed, for a streaming turn of a session whose cache holds a
\* load result: the prompt prepared for INITIAL contains the catalog
\* context built from that result, and a turn whose INITIAL response has
\* no tool call ends without an event of the tools or synthesis phase.
\* Refuted by main.py, whose prepare_messages_streaming adds no catalog
\* context.
C20_FollowUpUsesCachedLoad ==
    \A t \in Turns :
        (Streaming /\ HoldsLoad(turn[t].sid)) =>
            /\ turn[t].pc = "initial_call" =>
                   \E k \in 1..Len(turn[t].messages) :
                       /\ turn[t].messages[k].content = <<"catalog">>
                       /\ turn[t].messages[k].load # <<>>
            /\ (Done(t) /\ ~turn[t].escaped /\ turn[t].tool_calls = <<>>
                        /\ turn[t].raised = "none") =>
                   \A k \in 1..Len(turn[t].events) :
                       turn[t].events[k].phase \notin {"tools", "recommendations"}

\* C21, as claimed: an attempt that fails with a non-transient error (bad
\* request, authentication) is the last one: no backoff follows it, and
\* when it was the first attempt the error reaches the caller after one
\* attempt and no sleep.  Refuted by the keyword test on the error's text:
\* a bad request whose message holds "429" is retried.
C21_NonTransientNotRetried ==
    /\ call.pc = "backoff" => call.err.kind \notin NonTransient
    /\ (call.pc = "raised" /\ call.err.kind \in NonTransient
                           /\ call.sleeps = 0) => call.attempts = 1

C23_AbortReleasesLock ==
    [][\A sid \in SessionIds :
          Len(recovery'[sid].responses) > Len(recovery[sid].responses) =>
              /\ \A t \in Turns : turn[t].sid = sid => lock' # t
              /\ ~recovery'[sid].is_streaming
              /\ recovery'[sid].responses[Len(recovery'[sid].responses)]
                     .is_final]_vars

\* The final event of turn t went out and the save of the turn is not done.
SaveOutstanding(t) == turn[t].pc = "final_sent"

\* C24, as claimed: between the final event of a turn and the completion
\* of that turn's save no turn of the same session starts.  Refuted by
\* main.py, which saves in the finally clause of generate_stream, after
\* the final event was yielded, and takes a new request for the session
\* meanwhile.
C24_SaveBeforeNextTurn ==
    [][\A t1, t2 \in Turns :
          (/\ SaveOutstanding(t1)
           /\ turn[t2].pc = "idle"
           /\ turn'[t2].pc # "idle") => turn'[t2].sid # turn[t1].sid]_vars

\* C25, as claimed: load answers none for an id never saved, and after
\* save(s) it answers a session with the history, tool_cache, created_at
\* and message_count of s.  Refuted by WordPressSessionStore, which
\* persists the history rows only and cannot read them back.
C25_SaveLoadRoundTrip ==
    store.out.op = "load" =>
        LET saved == store.saved[store.out.sid]
        IN IF saved = <<>> THEN store.out.kind = "none"
           ELSE /\ store.out.kind = "session"
                /\ LET a == store.out.session[1]
                       b == saved[1]
                   IN /\ a.conversation_history = b.conversation_history
                      /\ a.tool_cache = b.tool_cache
                      /\ a.created_at = b.created_at
                      /\ a.message_count = b.message_count

\* A dimension was supplied and is not positive.
BadDimension(a) ==
    \E d \in {a.length, a.width, a.height, a.volume_m3} :
        d # <<>> /\ d[1] <= 0

\* C26, as claimed: the load calculation answers with a validation error
\* whenever target RH is not below current RH or a supplied dimension is
\* not positive.  Refuted by compute_load_components, which validates
\* neither, and by calculate_dehum_load, which ignores the dimensions
\* when a volume is supplied.
C26_InvalidInputIsError ==
    calc.pc = "done" =>
        LET a == calc.args[1]
        IN (a.targetRH >= a.currentRH \/ BadDimension(a)) =>
               calc.out = "error"

RequiredFields ==
    {"message", "session_id", "timestamp", "is_final", "metadata.phase"}

\* C27, as claimed: every event of a turn carries message, session_id,
\* timestamp, is_final and metadata.phase.  Refuted by the agent's error
\* response, whose metadata has no phase, and by the event dicts of
\* main.py.
C27_EventsCarryRequiredFields ==
    \A t \in Turns :
        \A k \in 1..Len(turn[t].events) :
            RequiredFields \subseteq EventFields(turn[t].events[k])

\* The calls the function has answered: the last one and the one before.
DerateCalls ==
    IF impl = "derate" /\ calc.pc = "done"
    THEN {[args |-> calc.args[1], out |-> calc.out]} \cup Range(calc.prev)
    ELSE {}

\* C28, as claimed: for every temperature and humidity the factor lies in
\* [0.1, 1.0].  Refuted at a temperature just under -243.04 degrees, where
\* saturation_vp raises.
C28_BoundedForEveryInput ==
    \A c \in DerateCalls :
        ~c.out.raised /\ c.out.factor >= 10 /\ c.out.factor <= 100

\* C28, amended: for every room temperature and every humidity the factor
\* lies in [0.1, 1.0], and of two such calls the one with the lower dew
\* point has no higher a factor.
C28_BoundedAndMonotoneInRange ==
    LET calls == {c \in DerateCalls : c.args.temp \in RoomTemps}
    IN /\ \A c \in calls :
             ~c.out.raised /\ c.out.factor >= 10 /\ c.out.factor <= 100
       /\ \A c, d \in calls :
             c.out.td <= d.out.td => c.out.factor <= d.out.factor

\* Two calls at room temperature with different dew points and factors
\* strictly inside the bounds, then one whose power exceeds 1.0.
C28_RisingFactor ==
    /\ impl = "derate"
    /\ calc.pc = "done"
    /\ calc.prev # <<>>
    /\ calc.args[1].temp \in RoomTemps
    /\ calc.prev[1].args.temp \in RoomTemps
    /\ calc.prev[1].out.td < calc.out.td
    /\ calc.prev[1].out.factor > 10
    /\ calc.prev[1].out.factor < calc.out.factor
    /\ calc.out.td > 26
    /\ calc.out.factor = 100

\* The ids of the tool calls the model asked for in INITIAL of turn t: those
\* of the first assistant message the turn added to its prompt.
InitialToolCalls(t) ==
    LET ms == SelectSeq(turn[t].messages,
                  LAMBDA m : m.role = "assistant" /\ m.turn = t)
    IN IF ms = <<>> THEN {} ELSE {tc.id : tc \in Range(ms[1].tool_calls)}

\* An event of the synthesis phase comes before position k of evs.
SynthesisBefore(evs, k) ==
    \E j \in 1..(k - 1) : evs[j].phase = "recommendations"

\* C29: within a turn the model is called with tool calling enabled only in
\* INITIAL (no planning call with tools after it), every tool call executed
\* is one INITIAL asked for, and none is executed once synthesis has begun.
C29_ToolsOnlyFromInitial ==
    \A t \in Turns :
        /\ turn[t].pc # "plan"
        /\ \A k \in 1..Len(turn[t].events) :
             turn[t].events[k].status = "executing_tool" =>
                /\ turn[t].events[k].call \in InitialToolCalls(t)
                /\ ~SynthesisBefore(turn[t].events, k)

\* A tool call of turn t failed: the agent reported tool_error, a tool
\* answered with an error result, or the call raised out of invoke_tool.
ToolFailed(t) ==
    \/ \E e \in Range(turn[t].events) : e.status = "tool_error"
    \/ \E r \in Range(turn[t].tool_results) : r.result.kind = "error"
    \/ turn[t].raised = "unknown_tool"

\* C30: a failed tool call does not abort the turn: the failure does not
\* leave the generator, and every call that was started has its outcome
\* event (tool_completed or tool_error) right after its start event.
C30_FailedToolDoesNotAbort ==
    \A t \in Turns :
        ToolFailed(t) =>
            /\ turn[t].raised \notin {"unknown_tool", "state_update"}
            /\ \A k \in 1..Len(turn[t].events) :
                 turn[t].events[k].status = "executing_tool" =>
                    /\ k < Len(turn[t].events)
                    /\ turn[t].events[k + 1].call = turn[t].events[k].call
                    /\ turn[t].events[k + 1].status \in
                           {"tool_completed", "tool_error"}

\* C31: one model call makes at most 4 attempts (1 and 3 retries); nothing
\* follows the attempt that succeeded or the error that was raised; and an
\* error the retry predicate accepts is raised to the caller only by the 4th
\* attempt.
C31_AtMostFourAttempts ==
    [][/\ call'.attempts <= 4
       /\ call'.sleeps <= 3
       /\ call.pc \in {"returned", "raised"} => call' = call
       /\ (call'.pc = "raised" /\ IsRetryableError(call'.err)) =>
              call'.attempts = 4]_vars

\* Four attempts failed with transient errors and the last one is raised.
C31_RaisedAfterFourth ==
    /\ call.pc = "raised"
    /\ call.attempts = 4
    /\ call.sleeps = 3
    /\ call.err.kind = "server"

\* The name fragments delivered for stream index idx, in arrival order.
RECURSIVE NamesFor(_, _)
NamesFor(log, idx) ==
    IF log = <<>> THEN <<>>
    ELSE (IF Head(log).index = idx THEN Head(log).name ELSE <<>>)
         \o NamesFor(Tail(log), idx)

\* C32: after any sequence of deltas, the function name assembled for an
\* index is the concatenation, in arrival order, of the name fragments
\* delivered for that index.
C32_NameConcatenates ==
    \A idx \in 0..MaxIndex :
        LET k == DictPos(aDicts, idx)
        IN k # 0 => aDicts[k].name = NamesFor(aLog, idx)

ToolAnswers(t, id) ==
    {k \in 1..Len(turn[t].messages) :
        /\ turn[t].messages[k].role = "tool"
        /\ turn[t].messages[k].turn = t
        /\ turn[t].messages[k].tool_call_id = id}

\* C34: when the model is about to be called after tools have run (the
\* synthesis call, or the planning call of main.py), every tool call listed
\* in an assistant message of the turn has exactly one tool-role message
\* with its id, later in the message list.
C34_EveryCallAnswered ==
    \A t \in Turns :
        turn[t].pc \in {"synth_call", "plan"} =>
            \A n \in 1..Len(turn[t].messages) :
                LET m == turn[t].messages[n]
                IN (m.role = "assistant" /\ m.turn = t) =>
                       \A tc \in Range(m.tool_calls) :
                           /\ Cardinality(ToolAnswers(t, tc.id)) = 1
                           /\ \A k \in ToolAnswers(t, tc.id) : k > n

\* C35: once clear_session has emptied the session and its store, what
\* get_or_create_session would load for the id stays empty for as long as no
\* new message arrives: no step of a turn that was in flight at the clear
\* writes history into the store.
C35_ClearedStaysEmpty ==
    [][\A sid \in SessionIds :
          (/\ session[sid].cleared
           /\ session'[sid].cleared
           /\ WpLoadHistory(session[sid].stored) = <<>>)
          => WpLoadHistory(session'[sid].stored) = <<>>]_vars

\* The catalog message the TOOLS phase of turn t appended, <<>> when the
\* model call after the tools is not yet due or no catalog was appended.
CatalogOfTools(t) ==
    LET ms == turn[t].messages
    IN IF /\ turn[t].pc = "synth_call"
          /\ turn[t].tool_calls # <<>>
          /\ ms # <<>>
          /\ ms[Len(ms)].content = <<"catalog">>
       THEN ms[Len(ms)].load
       ELSE <<>>

\* The results the load calculations requested in turn t were answered with.
LoadsRequested(t) ==
    {r.result : r \in {x \in Range(turn[t].tool_results) :
                          x.name = LoadName /\ x.result.kind = "load"}}

\* C36: when a turn requested a load calculation, the catalog context at
\* the end of its TOOLS phase, if built from a load result at all, is built
\* from the result of that request.
C36_CatalogFromRequestedLoad ==
    \A t \in Turns :
        (/\ CatalogOfTools(t) # <<>>
         /\ LoadsRequested(t) # {}
         /\ CatalogOfTools(t)[1].result.kind = "load") =>
            CatalogOfTools(t)[1].result \in LoadsRequested(t)

\* C37: no catalog message of a turn is built from a cache entry that holds
\* an error result.
C37_NoCatalogFromError ==
    \A t \in Turns : \A m \in Range(turn[t].messages) :
        (m.content = <<"catalog">> /\ m.load # <<>>) =>
            m.load[1].result.kind # "error"

\* C40: the cache entry a catalog message is built from was produced by the
\* load-calculation tool.
C40_LatestLoadIsFromLoadTool ==
    \A t \in Turns : \A m \in Range(turn[t].messages) :
        (m.content = <<"catalog">> /\ m.load # <<>>) =>
            m.load[1].result.name = LoadName

\* The tool calls turn t has started.
Invocations(t) ==
    SelectSeq(turn[t].events, LAMBDA e : e.status = "executing_tool")

WsOpen == {c \in WsConns : ws.conn[c].pc = "open"}

\* C39: for every session id and every client address the active-connection
\* counter equals the number of open accepted connections of that id (the
\* one of the connection's token) and of that address.
C39_CountersMatchConnections ==
    /\ \A s \in WsSids :
         ws.session_active[s] =
             Cardinality({c \in WsOpen : ws.conn[c].token_sid = s})
    /\ \A a \in WsIps :
         ws.ip_active[a] = Cardinality({c \in WsOpen : ws.conn[c].ip = a})

====
